---- MODULE Spec2Model ----
(***************************************************************************)
(* State-machine model of the boat_game world-state server                 *)
(* (src/api/app.py with the Firestore models of src/api/firestore_models.py)*)
(*                                                                         *)
(* One action per Socket.IO handler.  A handler is an operator of the      *)
(* connection id (request.sid), the event payload and the index of the     *)
(* store round trip that raises (0: none).  The specifications below       *)
(* choose the payloads from small sets.                                    *)
(***************************************************************************)
EXTENDS Integers, Sequences, FiniteSets, TLC

VARIABLES
    players,              \* app.py:53   cache: player id -> player dict
    store,                \* Firestore collection 'players': id -> document
    inventories,          \* Firestore collection 'inventories': player id -> document
    messages,             \* Firestore collection 'messages': message id -> document
    island_docs,          \* Firestore collection 'islands': island id -> document
    islands,              \* app.py:54   cache: island id -> island dict
    socket_to_user_map,   \* app.py:64   request.sid -> player id
    last_db_update,       \* app.py:57   player id -> time of the last position write
    last_db_positions,    \* app.py:61   player id -> last position written
    time_threshold,       \* app.py:58   DB_UPDATE_INTERVAL as deployed
    distance_threshold,   \* app.py:60   MIN_POSITION_UPDATE_DISTANCE as deployed, <<num, den>>
    now,                  \* time.time()
    evt,                  \* the event the last handler run was given
    out,                  \* what that run did, in order: store writes, emits, a raise
    hist                  \* what a specification records of earlier handler runs:
                          \* player id -> its last two accepted position updates,
                          \* or the progress of a burst of position updates,
                          \* or the name a client is about to send,
                          \* or the local variables of the joins suspended at
                          \* their Player.get, by connection

vars == <<players, store, inventories, messages, island_docs, islands,
          socket_to_user_map, last_db_update, last_db_positions, time_threshold, distance_threshold, now, evt, out, hist>>

-----------------------------------------------------------------------------
(* Bounds of the model *)

\* time.time() when the process starts (any value above the thresholds)
StartTime == 10
\* seconds the clock advances in the main specification
MaxTicks == 1
\* seconds the clock advances in the throttle specification
MaxTicksThrottle == 3
\* seconds the clock advances in the specification of the 5 s / 1.5 deployment
MaxTicksTuned == 6
\* largest counter value a stat event is let to produce
MaxCount == 1
\* number of update_position events of a burst
BurstLen == 100
\* longest list the inventory specification lets a collection grow to
MaxItems == 2
\* characters a name carries after its run of letters
MaxTail == 2
\* largest limit a leaderboard or message query is given
MaxLimit == 3

-----------------------------------------------------------------------------
(* Python values *)

\* None for optional numbers and dicts; a missing or empty string is ""
None == <<>>
Some(v) == <<v>>

\* dict.get(key) on a payload whose optional keys are modelled as <<>> or <<v>>
Get(opt, default) == IF opt = None THEN default ELSE opt[1]

\* {**base, **upd}
Merge(base, upd) ==
    [k \in DOMAIN base \cup DOMAIN upd |-> IF k \in DOMAIN upd THEN upd[k] ELSE base[k]]

\* d[key] = value on a dict
Put(d, key, value) == [k \in DOMAIN d \cup {key} |-> IF k = key THEN value ELSE d[k]]

\* d.pop(key, None): the dict without key
Pop(d, key) == [k \in DOMAIN d \ {key} |-> d[k]]

\* a float timestamp, and the string str() makes of it
Float(t) == <<"float", t>>
serialize_timestamp(value) == <<"str", value[2]>>

-----------------------------------------------------------------------------
(* Identity verifier and ids *)

Uids == {"u1", "u2"}
Sids == {"s1", "s2"}

TokenOf(u) == "tok_" \o u

\* docid = "firebase_" + player_id
DocId(u) == "firebase_" \o u

\* str.startswith('firebase_')
StartsWithFirebase(s) == Len(s) >= 9 /\ SubSeq(s, 1, 9) = "firebase_"

\* verify_firebase_token: the uid of a valid token, "" (None) otherwise
verify_firebase_token(token) ==
    IF token = "" THEN ""
    ELSE IF \E u \in Uids : token = TokenOf(u)
         THEN CHOOSE u \in Uids : token = TokenOf(u)
         ELSE ""

\* the check of handle_player_join: token and claimed id given, token verified,
\* verified uid equal to the claimed one
AuthNoCompare(data) ==
    /\ data.firebaseToken # "" /\ data.player_id # ""
    /\ verify_firebase_token(data.firebaseToken) # ""

Authenticated(data) ==
    /\ data.firebaseToken # "" /\ data.player_id # ""
    /\ verify_firebase_token(data.firebaseToken) # ""
    /\ verify_firebase_token(data.firebaseToken) = data.player_id

-----------------------------------------------------------------------------
(* What a handler run leaves in out *)

Emit(ev, to, data) == [ev |-> ev, to |-> to, data |-> data]
StoreWrite(id, fields) == [ev |-> "store_write", to |-> "store", data |-> <<id, fields>>]
Raise == [ev |-> "raise", to |-> "log", data |-> <<>>]

-----------------------------------------------------------------------------
(* firestore_models.Player *)

\* Player.to_dict: the document with its id and the timestamp as a string
Player_to_dict(id, doc) ==
    Merge(doc, [id |-> id, last_update |-> serialize_timestamp(doc.last_update)])

\* Player.update: doc_ref.update(updates) is round trip k, the read back k+1.
\* The write raises on a missing document.
Player_update(st, player_id, updates, fail, k) ==
    IF fail = k \/ player_id \notin DOMAIN st
    THEN [store |-> st, wrote |-> FALSE, raised |-> TRUE]
    ELSE [store |-> [st EXCEPT ![player_id] = Merge(st[player_id], updates)],
          wrote |-> TRUE, raised |-> (fail = k + 1)]

\* Player.create: doc_ref.set(defaults merged with data) is round trip k,
\* the read back k+1
Player_create(st, player_id, data, fail, k) ==
    IF fail = k
    THEN [store |-> st, wrote |-> FALSE, raised |-> TRUE]
    ELSE [store |-> Put(st, player_id, data), wrote |-> TRUE, raised |-> (fail = k + 1)]

\* the ids in the order of their document names
UidOrder == <<"u1", "u2", "u3">>
IdRank(id) == CHOOSE i \in 1..Len(UidOrder) : DocId(UidOrder[i]) = id

BeforeAscending(st, category, p, q) ==
    \/ st[p][category] < st[q][category]
    \/ st[p][category] = st[q][category] /\ IdRank(p) > IdRank(q)

\* order_by(category, direction=DESCENDING): the larger value first, and among
\* equal values the later document name first
Before(st, category, p, q) ==
    \/ st[p][category] > st[q][category]
    \/ st[p][category] = st[q][category] /\ IdRank(p) > IdRank(q)

RECURSIVE Ranked(_, _, _)
Ranked(st, ids, category) ==
    IF ids = {} THEN <<>>
    ELSE LET top == CHOOSE p \in ids : \A q \in ids \ {p} : Before(st, category, p, q)
         IN  <<top>> \o Ranked(st, ids \ {top}, category)

\* entries a leaderboard query returns at most
LeaderboardLimit == 10

\* Player.get_leaderboard: the first limit players by category, of all stored
\* players
get_leaderboard(st, category, limit) ==
    LET ranked == Ranked(st, DOMAIN st, category)
        first == IF Len(ranked) > limit THEN SubSeq(ranked, 1, limit) ELSE ranked
    IN  [i \in 1..Len(first) |-> Player_to_dict(first[i], st[first[i]])]

\* one category of Player.get_combined_leaderboard
LeaderboardEntries(st, category) ==
    LET board == get_leaderboard(st, category, LeaderboardLimit)
    IN  [i \in 1..Len(board) |->
            [name |-> board[i].name, value |-> board[i][category],
             color |-> board[i].color]]

get_combined_leaderboard(st) ==
    [fishCount |-> LeaderboardEntries(st, "fishCount"),
     monsterKills |-> LeaderboardEntries(st, "monsterKills"),
     money |-> LeaderboardEntries(st, "money")]

\* Player.get_leaderboard called on its own, with a limit of the caller
call_get_leaderboard(category, limit) ==
    /\ evt' = [name |-> "get_leaderboard", sid |-> "",
               data |-> [category |-> category, limit |-> limit], fail |-> 0]
    /\ out' = <<[ev |-> "return", to |-> "caller",
                 data |-> get_leaderboard(store, category, limit)]>>
    /\ UNCHANGED <<players, store, inventories, messages, island_docs, islands,
                   socket_to_user_map, last_db_update,
                   last_db_positions, time_threshold, distance_threshold, now>>

\* GET /api/leaderboard
http_get_leaderboard ==
    /\ evt' = [name |-> "http_get_leaderboard", sid |-> "", data |-> <<>>, fail |-> 0]
    /\ out' = <<[ev |-> "return", to |-> "caller",
                 data |-> get_combined_leaderboard(store)]>>
    /\ UNCHANGED <<players, store, inventories, messages, island_docs, islands,
                   socket_to_user_map, last_db_update,
                   last_db_positions, time_threshold, distance_threshold, now>>

-----------------------------------------------------------------------------
(* handle_disconnect *)

MarkInactiveAll(tbl, player_id) ==
    [q \in DOMAIN tbl |-> [tbl[q] EXCEPT !.active = FALSE]]

\* players[player_id]['active'] = False
MarkInactive(tbl, player_id) == [tbl EXCEPT ![player_id].active = FALSE]

DisconnectEmitsAlways(player_id, found) ==
    <<Emit("player_disconnected", "all", player_id)>>

\* emit('player_disconnected', {'id': player_id}, broadcast=True), inside the if
DisconnectEmits(player_id, found) ==
    IF found THEN <<Emit("player_disconnected", "all", player_id)>> ELSE <<>>

handle_disconnect(sid, fail) ==
    LET player_id == IF sid \in DOMAIN socket_to_user_map
                     THEN socket_to_user_map[sid] ELSE ""
        found == player_id # "" /\ player_id \in DOMAIN players
        updates == [active |-> FALSE, last_update |-> Float(now)]
        w == Player_update(store, player_id, updates, fail, 1)
    IN  /\ evt' = [name |-> "disconnect", sid |-> sid, data |-> <<>>, fail |-> fail]
        /\ UNCHANGED <<inventories, messages, island_docs, islands>>
        /\ socket_to_user_map' = Pop(socket_to_user_map, sid)
        /\ IF ~found
           THEN /\ UNCHANGED <<players, store>>
                /\ out' = DisconnectEmits(player_id, FALSE)
           ELSE /\ store' = w.store
                /\ IF w.raised
                   THEN /\ UNCHANGED players
                        /\ out' = (IF w.wrote
                                   THEN <<StoreWrite(player_id, updates)>> ELSE <<>>)
                                  \o <<Raise>>
                   ELSE /\ players' = MarkInactive(players, player_id)
                        /\ out' = <<StoreWrite(player_id, updates)>>
                                  \o DisconnectEmits(player_id, TRUE)
        /\ UNCHANGED <<last_db_update, last_db_positions, time_threshold,
                       distance_threshold, now>>

-----------------------------------------------------------------------------
(* handle_player_join *)

\* player_id[:4]
Prefix4(s) == IF Len(s) <= 4 THEN s ELSE SubSeq(s, 1, 4)

DefaultColor == <<3, 6, 8>>
DefaultPosition == [x |-> Some(0), y |-> Some(0), z |-> Some(0)]

\* player_data of a first join: the payload's fields or their defaults
NewPlayerData(player_id, data) ==
    [name |-> IF data.name = "" THEN "Sailor " \o Prefix4(player_id) ELSE data.name,
     color |-> Get(data.color, DefaultColor),
     position |-> Get(data.position, DefaultPosition),
     rotation |-> Get(data.rotation, 0),
     mode |-> IF data.mode = "" THEN "boat" ELSE data.mode,
     last_update |-> Float(now),
     fishCount |-> 0,
     monsterKills |-> 0,
     money |-> 0,
     active |-> TRUE]

\* [p for p in players.values() if p.get('active', False)], as the set of ids
ActivePlayers(tbl) == {p \in DOMAIN tbl : tbl[p].active}

\* the read-only sends that end a successful join; round trip 4 reads the
\* chat history, round trip 5 the leaderboard
JoinSnapshot(tbl, fail) ==
    <<Emit("all_players", "sender", ActivePlayers(tbl)),
      Emit("all_islands", "sender", islands)>>
    \o (IF fail = 4 THEN <<Raise>>
        ELSE <<Emit("chat_history", "sender", <<>>)>>
             \o (IF fail = 5 THEN <<Raise>>
                 ELSE <<Emit("leaderboard_update", "sender", <<>>)>>))

RejoinDataWithPosition(data) ==
    [active |-> TRUE, last_update |-> Float(now), position |-> DefaultPosition]

RejoinDataWithName(data) ==
    [active |-> TRUE, last_update |-> Float(now), name |-> data.name]

\* player_data of a join of an existing player
RejoinData(data) == [active |-> TRUE, last_update |-> Float(now)]

handle_player_join(sid, data, fail) ==
    LET player_id == verify_firebase_token(data.firebaseToken)
        docid == DocId(player_id)
        exists == docid \in DOMAIN store
        existing_player == Player_to_dict(docid, store[docid])
        rejoin_data == RejoinData(data)
        player_data == NewPlayerData(player_id, data)
        w == IF exists THEN Player_update(store, docid, rejoin_data, fail, 2)
             ELSE Player_create(store, docid, player_data, fail, 2)
        cached == IF exists THEN Merge(existing_player, rejoin_data)
                  ELSE Player_to_dict(docid, w.store[docid])
        written == IF exists THEN rejoin_data ELSE player_data
    IN  /\ evt' = [name |-> "player_join", sid |-> sid, data |-> data, fail |-> fail]
        /\ UNCHANGED <<inventories, messages, island_docs, islands>>
        /\ UNCHANGED <<last_db_update, last_db_positions, time_threshold,
                       distance_threshold, now>>
        /\ IF data.firebaseToken = "" \/ data.player_id = ""
           THEN /\ out' = <<Emit("auth_required", "sender", <<>>)>>
                /\ UNCHANGED <<players, store, socket_to_user_map>>
           ELSE IF ~Authenticated(data)
           THEN /\ out' = <<Emit("auth_error", "sender", <<>>)>>
                /\ UNCHANGED <<players, store, socket_to_user_map>>
           ELSE /\ socket_to_user_map' = Put(socket_to_user_map, sid, docid)
                /\ IF fail = 1
                   THEN /\ out' = <<Raise>>
                        /\ UNCHANGED <<players, store>>
                   ELSE /\ store' = w.store
                        /\ IF w.raised
                           THEN /\ UNCHANGED players
                                /\ out' = (IF w.wrote
                                           THEN <<StoreWrite(docid, written)>> ELSE <<>>)
                                          \o <<Raise>>
                           ELSE /\ players' = Put(players, docid, cached)
                                /\ out' = <<StoreWrite(docid, written),
                                            Emit("connection_response", "sender",
                                                 IF exists THEN existing_player
                                                 ELSE player_data),
                                            Emit("player_joined", "all", cached)>>
                                          \o JoinSnapshot(players', fail)

\* Player.get: the document as a dict, or None
Player_get(st, player_id) ==
    IF player_id \in DOMAIN st THEN Some(Player_to_dict(player_id, st[player_id]))
    ELSE None

\* handle_player_join with a valid token, up to the return of Player.get: the
\* handler is then suspended at the store round trip with existing_player read
join_get(sid, data) ==
    LET docid == DocId(verify_firebase_token(data.firebaseToken))
    IN  /\ Authenticated(data)
        /\ evt' = [name |-> "player_join_get", sid |-> sid, data |-> data, fail |-> 0]
        /\ socket_to_user_map' = Put(socket_to_user_map, sid, docid)
        /\ out' = <<>>
        /\ UNCHANGED <<players, store, inventories, messages, island_docs, islands,
                       last_db_update, last_db_positions, time_threshold,
                       distance_threshold, now>>

\* the rest of that handle_player_join, resumed with the existing_player it read
join_finish(sid, data, existing_player) ==
    LET player_id == verify_firebase_token(data.firebaseToken)
        docid == DocId(player_id)
        rejoin_data == RejoinData(data)
        player_data == NewPlayerData(player_id, data)
        w == IF existing_player # None
             THEN Player_update(store, docid, rejoin_data, 0, 2)
             ELSE Player_create(store, docid, player_data, 0, 2)
        cached == IF existing_player # None THEN Merge(existing_player[1], rejoin_data)
                  ELSE Player_to_dict(docid, w.store[docid])
    IN  /\ evt' = [name |-> "player_join", sid |-> sid, data |-> data, fail |-> 0]
        /\ store' = w.store
        /\ IF w.raised
           THEN /\ UNCHANGED players
                /\ out' = <<Raise>>
           ELSE /\ players' = Put(players, docid, cached)
                /\ out' = <<StoreWrite(docid, IF existing_player # None
                                              THEN rejoin_data ELSE player_data),
                            Emit("connection_response", "sender",
                                 IF existing_player # None THEN existing_player[1]
                                 ELSE player_data),
                            Emit("player_joined", "all", cached)>>
                          \o JoinSnapshot(players', 0)
        /\ UNCHANGED <<inventories, messages, island_docs, islands, socket_to_user_map,
                       last_db_update, last_db_positions, time_threshold,
                       distance_threshold, now>>

-----------------------------------------------------------------------------
(* handle_position_update *)

\* x - last_pos['x'] and the like raise TypeError on None
Numeric(position) == position.x # None /\ position.y # None /\ position.z # None

\* (dx*dx + dy*dy + dz*dz), the square of the Euclidean distance
DistanceSquared(p, q) ==
    LET dx == p.x[1] - q.x[1]
        dy == p.y[1] - q.y[1]
        dz == p.z[1] - q.z[1]
    IN  dx * dx + dy * dy + dz * dz

FartherOrAsFar(p, q, threshold) ==
    DistanceSquared(p, q) * threshold[2] * threshold[2] >= threshold[1] * threshold[1]

\* distance > MIN_POSITION_UPDATE_DISTANCE, the threshold being num/den
FartherThan(p, q, threshold) ==
    DistanceSquared(p, q) * threshold[2] * threshold[2] > threshold[1] * threshold[1]

should_update_db_always(player_id, position) == TRUE

should_update_db_interval(player_id, position) ==
    IF player_id \notin DOMAIN last_db_positions THEN TRUE
    ELSE FartherThan(position, last_db_positions[player_id], <<time_threshold, 1>>)

\* should_update_db: no position written yet, or moved more than the threshold
should_update_db(player_id, position) ==
    IF player_id \notin DOMAIN last_db_positions THEN TRUE
    ELSE FartherThan(position, last_db_positions[player_id], distance_threshold)

\* last_db_update.get(player_id, 0)
LastDbUpdate(player_id) ==
    IF player_id \in DOMAIN last_db_update THEN last_db_update[player_id] ELSE 0

\* current_time - last_db_update.get(player_id, 0) > DB_UPDATE_INTERVAL
IntervalElapsed(player_id) == now - LastDbUpdate(player_id) > time_threshold

\* the distance computation raises when it meets a None coordinate
DistanceRaises(player_id, position) ==
    /\ player_id \in DOMAIN last_db_positions
    /\ ~(Numeric(position) /\ Numeric(last_db_positions[player_id]))

\* the fields of the payload that are written: position, last_update, and
\* rotation and mode when given
PositionFields(data, position) ==
    Merge(Merge([position |-> position],
                IF data.rotation = None THEN <<>> ELSE [rotation |-> data.rotation[1]]),
          IF data.mode = "" THEN <<>> ELSE [mode |-> data.mode])

RecordNothing(tbl, player_id, value) == tbl

\* last_db_update[player_id] = current_time and last_db_positions[player_id] =
\* position, the two assignments that precede the store write
RecordWrite(tbl, player_id, value) == Put(tbl, player_id, value)

ApplyPositionWhenDue(tbl, player_id, fields) ==
    IF IntervalElapsed(player_id)
    THEN [tbl EXCEPT ![player_id] = Merge(Merge(@, fields), [last_update |-> Float(now)])]
    ELSE tbl

\* the update of the cached player: position, rotation and mode when given,
\* last_update
ApplyPosition(tbl, player_id, fields) ==
    [tbl EXCEPT ![player_id] = Merge(Merge(@, fields), [last_update |-> Float(now)])]

handle_position_update(sid, data, fail) ==
    LET player_id == data.player_id
        position == [x |-> data.x, y |-> data.y, z |-> data.z]
        fields == PositionFields(data, position)
        update_data == Merge(fields, [last_update |-> Float(now)])
        w == Player_update(store, player_id, update_data, fail, 1)
        moved == Emit("player_moved", "others", <<player_id, fields>>)
    IN  /\ evt' = [name |-> "update_position", sid |-> sid, data |-> data, fail |-> fail]
        /\ UNCHANGED <<inventories, messages, island_docs, islands>>
        /\ UNCHANGED <<socket_to_user_map, time_threshold, distance_threshold, now>>
        /\ IF player_id = "" \/ data.x = None \/ data.z = None
              \/ player_id \notin DOMAIN players
           THEN /\ out' = <<>>
                /\ UNCHANGED <<players, store, last_db_update, last_db_positions>>
           ELSE /\ players' = ApplyPosition(players, player_id, fields)
                /\ IF DistanceRaises(player_id, position)
                   THEN /\ out' = <<Raise>>
                        /\ UNCHANGED <<store, last_db_update, last_db_positions>>
                   ELSE IF IntervalElapsed(player_id) /\ should_update_db(player_id, position)
                   THEN /\ last_db_update' = RecordWrite(last_db_update, player_id, now)
                        /\ last_db_positions' =
                               RecordWrite(last_db_positions, player_id, position)
                        /\ store' = w.store
                        /\ out' = (IF w.wrote THEN <<StoreWrite(player_id, update_data)>>
                                   ELSE <<>>)
                                  \o (IF w.raised THEN <<Raise>> ELSE <<moved>>)
                   ELSE /\ out' = <<moved>>
                        /\ UNCHANGED <<store, last_db_update, last_db_positions>>

\* handle_position_update of an update it does not drop, run by a thread up to
\* the evaluation of the throttle condition: the cache is updated and the
\* thread is about to act on the decision it took
position_check(sid, data) ==
    LET player_id == data.player_id
        position == [x |-> data.x, y |-> data.y, z |-> data.z]
    IN  /\ player_id # "" /\ data.x # None /\ data.z # None
        /\ player_id \in DOMAIN players
        /\ ~DistanceRaises(player_id, position)
        /\ evt' = [name |-> "update_position_check", sid |-> sid, data |-> data,
                   fail |-> 0]
        /\ players' = ApplyPosition(players, player_id, PositionFields(data, position))
        /\ out' = <<>>
        /\ UNCHANGED <<store, inventories, messages, island_docs, islands,
                       socket_to_user_map, last_db_update, last_db_positions,
                       time_threshold, distance_threshold, now>>

\* the decision that thread took
position_due(data) ==
    /\ IntervalElapsed(data.player_id)
    /\ should_update_db(data.player_id, [x |-> data.x, y |-> data.y, z |-> data.z])

\* the rest of that handle_position_update, resumed with the decision taken;
\* current_time was read before the check
position_finish(sid, data, due, current_time) ==
    LET player_id == data.player_id
        position == [x |-> data.x, y |-> data.y, z |-> data.z]
        fields == PositionFields(data, position)
        update_data == Merge(fields, [last_update |-> Float(current_time)])
        w == Player_update(store, player_id, update_data, 0, 1)
        moved == Emit("player_moved", "others", <<player_id, fields>>)
    IN  /\ evt' = [name |-> "update_position", sid |-> sid, data |-> data, fail |-> 0]
        /\ IF due
           THEN /\ last_db_update' = RecordWrite(last_db_update, player_id, current_time)
                /\ last_db_positions' =
                       RecordWrite(last_db_positions, player_id, position)
                /\ store' = w.store
                /\ out' = (IF w.wrote THEN <<StoreWrite(player_id, update_data)>>
                           ELSE <<>>)
                          \o (IF w.raised THEN <<Raise>> ELSE <<moved>>)
           ELSE /\ out' = <<moved>>
                /\ UNCHANGED <<store, last_db_update, last_db_positions>>
        /\ UNCHANGED <<players, inventories, messages, island_docs, islands,
                       socket_to_user_map, time_threshold, distance_threshold, now>>

-----------------------------------------------------------------------------
(* handle_player_action *)

\* the counter an action type increments, "" for an unknown type
CounterOf(action_type) ==
    CASE action_type = "fish_caught" -> "fishCount"
      [] action_type = "monster_killed" -> "monsterKills"
      [] action_type = "money_earned" -> "money"
      [] OTHER -> ""

IncrementByOne(data) == 1

\* += 1 for a fish or a monster, += data.get('amount', 0) for money
Increment(data) == IF data.action = "money_earned" THEN Get(data.amount, 0) ELSE 1

handle_player_action(sid, data, fail) ==
    LET player_id == data.player_id
        counter == CounterOf(data.action)
        value == players[player_id][counter] + Increment(data)
        updates == (counter :> value)
        w == Player_update(store, player_id, updates, fail, 1)
    IN  /\ evt' = [name |-> "player_action", sid |-> sid, data |-> data, fail |-> fail]
        /\ UNCHANGED <<inventories, messages, island_docs, islands>>
        /\ UNCHANGED <<socket_to_user_map, last_db_update, last_db_positions,
                       time_threshold, distance_threshold, now>>
        /\ IF player_id = "" \/ ~StartsWithFirebase(player_id)
              \/ player_id \notin DOMAIN players \/ counter = ""
           THEN /\ out' = <<>>
                /\ UNCHANGED <<players, store>>
           ELSE /\ players' = [players EXCEPT ![player_id][counter] = value]
                /\ store' = w.store
                /\ out' = (IF w.wrote THEN <<StoreWrite(player_id, updates)>> ELSE <<>>)
                          \o (IF w.raised THEN <<Raise>>
                              ELSE <<Emit("player_achievement", "all",
                                          <<player_id, players[player_id].name, counter, value>>)>>
                                   \o (IF fail = 3 THEN <<Raise>>
                                       ELSE <<Emit("leaderboard_update", "all",
                                                   get_combined_leaderboard(w.store))>>))

-----------------------------------------------------------------------------
(* sanitize_player_name *)

Char(s, i) == SubSeq(s, i, i)

\* the least j >= i with s[j] = c, 0 when there is none
RECURSIVE IndexFrom(_, _, _)
IndexFrom(s, c, i) ==
    IF i > Len(s) THEN 0
    ELSE IF Char(s, i) = c THEN i
    ELSE IndexFrom(s, c, i + 1)

\* s without the characters of the set cs
RECURSIVE Without(_, _)
Without(s, cs) ==
    IF s = "" THEN ""
    ELSE (IF Char(s, 1) \in cs THEN "" ELSE Char(s, 1)) \o Without(SubSeq(s, 2, Len(s)), cs)

\* re.sub(r'<[^>]*>', '', name), from index i on
RECURSIVE RemoveTags(_, _)
RemoveTags(s, i) ==
    IF i > Len(s) THEN ""
    ELSE IF Char(s, i) = "<" /\ IndexFrom(s, ">", i + 1) # 0
    THEN RemoveTags(s, IndexFrom(s, ">", i + 1) + 1)
    ELSE Char(s, i) \o RemoveTags(s, i + 1)

\* re.sub(r'&[^;]+;', '', sanitized), from index i on
RECURSIVE RemoveEntities(_, _)
RemoveEntities(s, i) ==
    IF i > Len(s) THEN ""
    ELSE IF /\ Char(s, i) = "&" /\ i + 1 <= Len(s) /\ Char(s, i + 1) # ";"
            /\ IndexFrom(s, ";", i + 2) # 0
    THEN RemoveEntities(s, IndexFrom(s, ";", i + 2) + 1)
    ELSE Char(s, i) \o RemoveEntities(s, i + 1)

\* the four replace('\\', ''), replace('/', ''), replace('"', ''), replace("'", '')
RemoveQuoting(s) == Without(s, {"\\", "/", "\"", "'"})

\* sanitize_clan_tags: the content between the brackets without <>&\/'"
sanitize_clan_tags(clan_content) ==
    "[" \o Without(clan_content, {"<", ">", "&", "\\", "/", "'", "\""}) \o "]"

\* re.sub(r'\[(.*?)\]', sanitize_clan_tags, sanitized), from index i on; the
\* dot matches no newline
RECURSIVE CleanClanTags(_, _)
CleanClanTags(s, i) ==
    IF i > Len(s) THEN ""
    ELSE IF /\ Char(s, i) = "[" /\ IndexFrom(s, "]", i + 1) # 0
            /\ IndexFrom(SubSeq(s, i + 1, IndexFrom(s, "]", i + 1) - 1), "\n", 1) = 0
    THEN sanitize_clan_tags(SubSeq(s, i + 1, IndexFrom(s, "]", i + 1) - 1))
         \o CleanClanTags(s, IndexFrom(s, "]", i + 1) + 1)
    ELSE Char(s, i) \o CleanClanTags(s, i + 1)

Whitespace == {" ", "\t", "\n", "\r"}

\* str.strip()
RECURSIVE strip(_)
strip(s) ==
    IF s = "" THEN ""
    ELSE IF Char(s, 1) \in Whitespace THEN strip(SubSeq(s, 2, Len(s)))
    ELSE IF Char(s, Len(s)) \in Whitespace THEN strip(SubSeq(s, 1, Len(s) - 1))
    ELSE s

sanitize_player_name(name) ==
    strip(CleanClanTags(RemoveQuoting(RemoveEntities(RemoveTags(name, 1), 1)), 1))

\* shortest and longest name handle_update_player_name lets through
MinNameLen == 2
MaxNameLen == 50

\* sanitized_name[:50]
Truncate(s) == IF Len(s) > MaxNameLen THEN SubSeq(s, 1, MaxNameLen) ELSE s

-----------------------------------------------------------------------------
(* handle_update_player_name and handle_update_player_color *)

handle_update_player_name(sid, data, fail) ==
    LET player_id == data.player_id
        sanitized_name == Truncate(sanitize_player_name(data.name))
        updates == [name |-> sanitized_name]
        w == Player_update(store, player_id, updates, fail, 1)
    IN  /\ evt' = [name |-> "update_player_name", sid |-> sid, data |-> data, fail |-> fail]
        /\ UNCHANGED <<inventories, messages, island_docs, islands>>
        /\ UNCHANGED <<socket_to_user_map, last_db_update, last_db_positions,
                       time_threshold, distance_threshold, now>>
        /\ IF player_id = "" \/ data.name = ""
              \/ Len(sanitize_player_name(data.name)) < MinNameLen
              \/ player_id \notin DOMAIN players
           THEN /\ out' = <<>>
                /\ UNCHANGED <<players, store>>
           ELSE /\ players' = [players EXCEPT ![player_id].name = sanitized_name]
                /\ store' = w.store
                /\ out' = (IF w.wrote THEN <<StoreWrite(player_id, updates)>> ELSE <<>>)
                          \o (IF w.raised THEN <<Raise>>
                              ELSE <<Emit("player_updated", "all", <<player_id, updates>>)>>)

handle_update_player_color(sid, data, fail) ==
    LET player_id == data.player_id
        updates == [color |-> data.color[1]]
        w == Player_update(store, player_id, updates, fail, 1)
    IN  /\ evt' = [name |-> "update_player_color", sid |-> sid, data |-> data, fail |-> fail]
        /\ UNCHANGED <<inventories, messages, island_docs, islands>>
        /\ UNCHANGED <<socket_to_user_map, last_db_update, last_db_positions,
                       time_threshold, distance_threshold, now>>
        /\ IF player_id = "" \/ data.color = None \/ player_id \notin DOMAIN players
           THEN /\ out' = <<>>
                /\ UNCHANGED <<players, store>>
           ELSE /\ players' = [players EXCEPT ![player_id].color = data.color[1]]
                /\ store' = w.store
                /\ out' = (IF w.wrote THEN <<StoreWrite(player_id, updates)>> ELSE <<>>)
                          \o (IF w.raised THEN <<Raise>>
                              ELSE <<Emit("player_updated", "all", <<player_id, updates>>)>>)

-----------------------------------------------------------------------------
(* handle_chat_message *)

\* the longest content handle_chat_message lets through
MaxChatLen == 500

\* player_name, or the cached name when the payload has none and the player
\* is cached
ChatName(data) ==
    IF data.player_name = "" /\ data.player_id \in DOMAIN players
    THEN players[data.player_id].name
    ELSE data.player_name

\* final_name = player_name or 'Unknown Sailor'
FinalName(player_name) == IF player_name = "" THEN "Unknown Sailor" ELSE player_name

\* the handler reads the cache and broadcasts; it writes nothing
handle_chat_message(sid, data, fail) ==
    LET content == strip(data.content)
        player_id == data.player_id
        message_obj == [content |-> content, player_id |-> player_id,
                        sender_name |-> FinalName(ChatName(data)),
                        timestamp |-> serialize_timestamp(Float(now))]
    IN  /\ evt' = [name |-> "send_message", sid |-> sid, data |-> data, fail |-> fail]
        /\ UNCHANGED <<players, store, inventories, messages, island_docs, islands>>
        /\ UNCHANGED <<socket_to_user_map, last_db_update, last_db_positions,
                       time_threshold, distance_threshold, now>>
        /\ out' = IF content = "" \/ Len(content) > MaxChatLen THEN <<>>
                  ELSE IF player_id = "" \/ ~StartsWithFirebase(player_id) THEN <<>>
                  ELSE <<Emit("new_message", "all", message_obj)>>

-----------------------------------------------------------------------------
(* firestore_models.Inventory *)

\* the item types of Inventory.remove_item
ItemTypes == {"fish", "treasures", "cargo"}

\* Inventory.to_dict: the document with its id and its timestamps as strings
Inventory_to_dict(id, doc) ==
    Merge(doc, Merge([id |-> id, created_at |-> serialize_timestamp(doc.created_at)],
                     IF "updated_at" \in DOMAIN doc
                     THEN [updated_at |-> serialize_timestamp(doc.updated_at)]
                     ELSE <<>>))

\* Inventory.create: doc_ref.set(defaults)
Inventory_create(inv, player_id) ==
    Put(inv, player_id,
        [player_id |-> player_id, fish |-> <<>>, treasures |-> <<>>, cargo |-> <<>>,
         created_at |-> Float(now)])

\* Inventory.get: the collection after the call, which creates a missing
\* document, and the inventory returned
Inventory_get(inv, player_id) ==
    LET after == IF player_id \in DOMAIN inv THEN inv ELSE Inventory_create(inv, player_id)
    IN  [inventories |-> after, inventory |-> Inventory_to_dict(player_id, after[player_id])]

\* Inventory.update: doc_ref.update(updates with updated_at), then Inventory.get
Inventory_update(inv, player_id, updates) ==
    Inventory_get([inv EXCEPT ![player_id] =
                       Merge(@, Merge(updates, [updated_at |-> Float(now)]))],
                  player_id)

\* item_data or {}: the data of an entry, "" for the empty dict
ItemData(item_data) == Get(item_data, "")

\* the entries add_fish, add_treasure and add_cargo append
FishEntry(name, data) == [name |-> name, caught_at |-> Float(now), data |-> ItemData(data)]
TreasureEntry(name, data) == [name |-> name, found_at |-> Float(now), data |-> ItemData(data)]
CargoEntry(name, data) == [name |-> name, acquired_at |-> Float(now), data |-> ItemData(data)]

\* Inventory.add_fish, add_treasure, add_cargo: read, append, write the list
Inventory_add(inv, player_id, field, entry) ==
    LET got == Inventory_get(inv, player_id)
    IN  Inventory_update(got.inventories, player_id,
                         (field :> Append(got.inventory[field], entry)))

add_fish(inv, player_id, fish_name, fish_data) ==
    Inventory_add(inv, player_id, "fish", FishEntry(fish_name, fish_data))

add_treasure(inv, player_id, treasure_name, treasure_data) ==
    Inventory_add(inv, player_id, "treasures", TreasureEntry(treasure_name, treasure_data))

add_cargo(inv, player_id, cargo_name, cargo_data) ==
    Inventory_add(inv, player_id, "cargo", CargoEntry(cargo_name, cargo_data))

IndexValidNoLower(item_index, current_items) ==
    ~(item_index >= Len(current_items))

\* the check of remove_item: not (item_index < 0 or item_index >= len(current_items))
IndexValid(item_index, current_items) ==
    ~(item_index < 0 \/ item_index >= Len(current_items))

\* the position list.pop(item_index) removes, counted from 0: a negative index
\* counts from the end
PopIndex(current_items, item_index) ==
    IF item_index < 0 THEN item_index + Len(current_items) ELSE item_index

\* list.pop raises IndexError outside the list
PopRaises(current_items, item_index) ==
    \/ PopIndex(current_items, item_index) < 0
    \/ PopIndex(current_items, item_index) >= Len(current_items)

\* current_items after pop(item_index)
PopAt(current_items, item_index) ==
    [j \in 1..(Len(current_items) - 1) |->
        IF j <= PopIndex(current_items, item_index)
        THEN current_items[j] ELSE current_items[j + 1]]

\* Inventory.remove_item: the inventory is read (and created when missing)
\* before the item type and the index are checked
remove_item(player_id, item_type, item_index) ==
    LET got == Inventory_get(inventories, player_id)
        current_items == got.inventory[item_type]
        result == Inventory_update(got.inventories, player_id,
                                   (item_type :> PopAt(current_items, item_index)))
    IN  /\ evt' = [name |-> "remove_item", sid |-> "",
                   data |-> [player_id |-> player_id, item_type |-> item_type,
                             item_index |-> item_index],
                   fail |-> 0]
        /\ IF item_type \notin ItemTypes
           THEN inventories' = got.inventories /\ out' = <<Raise>>
           ELSE IF ~IndexValid(item_index, current_items)
                   \/ PopRaises(current_items, item_index)
           THEN inventories' = got.inventories /\ out' = <<Raise>>
           ELSE /\ inventories' = result.inventories
                /\ out' = <<[ev |-> "return", to |-> "caller",
                             data |-> [removed_item |->
                                           current_items[PopIndex(current_items, item_index) + 1],
                                       inventory |-> result.inventory]]>>
        /\ UNCHANGED <<players, store, messages, island_docs, islands,
                       socket_to_user_map, last_db_update, last_db_positions,
                       time_threshold, distance_threshold, now>>

\* Inventory.add_cargo called on its own: no handler of app.py calls it
call_add_cargo(player_id, cargo_name, cargo_data) ==
    LET result == add_cargo(inventories, player_id, cargo_name, cargo_data)
    IN  /\ evt' = [name |-> "add_cargo", sid |-> "",
                   data |-> [player_id |-> player_id, item_name |-> cargo_name,
                             item_data |-> cargo_data],
                   fail |-> 0]
        /\ inventories' = result.inventories
        /\ out' = <<[ev |-> "return", to |-> "caller", data |-> result.inventory]>>
        /\ UNCHANGED <<players, store, messages, island_docs, islands,
                       socket_to_user_map, last_db_update, last_db_positions,
                       time_threshold, distance_threshold, now>>

-----------------------------------------------------------------------------
(* handle_add_to_inventory and handle_get_inventory *)

handle_add_to_inventory(sid, data, fail) ==
    LET player_id == data.player_id
        result == IF data.item_type = "fish"
                  THEN add_fish(inventories, player_id, data.item_name, data.item_data)
                  ELSE add_treasure(inventories, player_id, data.item_name, data.item_data)
    IN  /\ evt' = [name |-> "add_to_inventory", sid |-> sid, data |-> data, fail |-> fail]
        /\ UNCHANGED <<players, store, messages, island_docs, islands,
                       socket_to_user_map, last_db_update, last_db_positions,
                       time_threshold, distance_threshold, now>>
        /\ IF player_id = "" \/ player_id \notin DOMAIN players
              \/ data.item_type = "" \/ data.item_name = ""
              \/ data.item_type \notin {"fish", "treasure"}
           THEN out' = <<>> /\ UNCHANGED <<inventories, messages, island_docs, islands>>
           ELSE IF fail = 1
           THEN out' = <<Raise>> /\ UNCHANGED <<inventories, messages, island_docs, islands>>
           ELSE /\ inventories' = result.inventories
                /\ out' = <<Emit("inventory_updated", "sender", result.inventory)>>

handle_get_inventory(sid, data, fail) ==
    LET got == Inventory_get(inventories, data.player_id)
    IN  /\ evt' = [name |-> "get_inventory", sid |-> sid, data |-> data, fail |-> fail]
        /\ UNCHANGED <<players, store, messages, island_docs, islands,
                       socket_to_user_map, last_db_update, last_db_positions,
                       time_threshold, distance_threshold, now>>
        /\ IF data.player_id = ""
           THEN out' = <<>> /\ UNCHANGED <<inventories, messages, island_docs, islands>>
           ELSE IF fail = 1
           THEN out' = <<Raise>> /\ UNCHANGED <<inventories, messages, island_docs, islands>>
           ELSE /\ inventories' = got.inventories
                /\ out' = <<Emit("inventory_data", "sender", got.inventory)>>

-----------------------------------------------------------------------------
(* firestore_models.Message *)

\* str(value) of a float holding a whole number: its decimal digits, then ".0",
\* as code points
RECURSIVE Digits(_)
Digits(n) == IF n < 10 THEN <<48 + n>> ELSE Digits(n \div 10) \o <<48 + (n % 10)>>

Repr(value) == Digits(value[2]) \o <<46, 48>>

\* a < b on two Python strings given as code points
RECURSIVE LexLess(_, _)
LexLess(a, b) ==
    IF a = <<>> THEN b # <<>>
    ELSE IF b = <<>> THEN FALSE
    ELSE IF a[1] # b[1] THEN a[1] < b[1]
    ELSE LexLess(Tail(a), Tail(b))

\* a < b on two values serialize_timestamp returned
StrLess(a, b) == LexLess(Repr(a), Repr(b))

\* document names of the collection, in the store's order of names
MessageOrder == <<"m1", "m2", "m3">>
MessageIds == {MessageOrder[i] : i \in 1..Len(MessageOrder)}
NameRank(id) == CHOOSE i \in 1..Len(MessageOrder) : MessageOrder[i] = id

Message_to_dict(id, doc) ==
    Merge(doc, [id |-> id, timestamp |-> serialize_timestamp(doc.timestamp)])

\* content[:500]
MaxContentLen == 500
Content500(content) ==
    IF Len(content) > MaxContentLen THEN SubSeq(content, 1, MaxContentLen) ELSE content

\* Message.create: the document the collection holds under the generated id
Message_create(msgs, id, sender_id, content, message_type) ==
    Put(msgs, id, [sender_id |-> sender_id, content |-> Content500(content),
                   timestamp |-> Float(now), message_type |-> message_type])

\* .where('message_type', '==', message_type)
OfType(msgs, message_type) == {m \in DOMAIN msgs : msgs[m].message_type = message_type}

\* .order_by('timestamp', direction=DESCENDING): the later timestamp first, and
\* among equal timestamps the later document name first
NewerFirst(msgs, m, n) ==
    \/ msgs[m].timestamp[2] > msgs[n].timestamp[2]
    \/ msgs[m].timestamp[2] = msgs[n].timestamp[2] /\ NameRank(m) > NameRank(n)

RECURSIVE OrderedStream(_, _)
OrderedStream(msgs, ids) ==
    IF ids = {} THEN <<>>
    ELSE LET top == CHOOSE m \in ids : \A n \in ids \ {m} : NewerFirst(msgs, m, n)
         IN  <<Message_to_dict(top, msgs[top])>> \o OrderedStream(msgs, ids \ {top})

\* .stream() of a query without order_by: by document name
RECURSIVE Stream(_, _)
Stream(msgs, ids) ==
    IF ids = {} THEN <<>>
    ELSE LET top == CHOOSE m \in ids : \A n \in ids \ {m} : NameRank(m) < NameRank(n)
         IN  <<Message_to_dict(top, msgs[top])>> \o Stream(msgs, ids \ {top})

\* list[:limit]
Take(list, limit) == IF Len(list) > limit THEN SubSeq(list, 1, limit) ELSE list

\* list.sort(key=lambda x: x.get('timestamp', 0), reverse=True): the sort is
\* stable, the keys are the strings to_dict made of the timestamps
RECURSIVE SortByTimestamp(_)
SortByTimestamp(list) ==
    IF list = <<>> THEN <<>>
    ELSE LET i == CHOOSE i \in 1..Len(list) :
                      /\ \A j \in 1..Len(list) : ~StrLess(list[i].timestamp, list[j].timestamp)
                      /\ \A j \in 1..(i - 1) : StrLess(list[j].timestamp, list[i].timestamp)
         IN  <<list[i]>> \o SortByTimestamp(SubSeq(list, 1, i - 1)
                                              \o SubSeq(list, i + 1, Len(list)))

UnknownColor == [r |-> 5, g |-> 5, b |-> 5]

\* sender_name and sender_color of Player.get(message['sender_id'])
WithSender(st, message) ==
    IF message.sender_id \in DOMAIN st
    THEN Merge(message, [sender_name |-> st[message.sender_id].name,
                         sender_color |-> st[message.sender_id].color])
    ELSE Merge(message, [sender_name |-> "Unknown", sender_color |-> UnknownColor])

\* list.reverse()
Reverse(list) == [i \in 1..Len(list) |-> list[Len(list) + 1 - i]]

\* Message.get_recent_messages; indexed tells whether the store serves the
\* filtered and ordered query or raises for want of an index
get_recent_messages(msgs, st, limit, message_type, indexed) ==
    LET found == IF indexed
                 THEN Take(OrderedStream(msgs, OfType(msgs, message_type)), limit)
                 ELSE Take(SortByTimestamp(Stream(msgs, OfType(msgs, message_type))),
                           limit)
    IN  Reverse([i \in 1..Len(found) |-> WithSender(st, found[i])])

\* Message.create called on its own: no handler of app.py calls it
call_Message_create(id, sender_id, content, message_type) ==
    /\ messages' = Message_create(messages, id, sender_id, content, message_type)
    /\ evt' = [name |-> "Message.create", sid |-> "",
               data |-> [sender_id |-> sender_id, content |-> content,
                         message_type |-> message_type],
               fail |-> 0]
    /\ out' = <<[ev |-> "return", to |-> "caller",
                 data |-> WithSender(store, Message_to_dict(id, messages'[id]))]>>
    /\ UNCHANGED <<players, store, inventories, island_docs, islands,
                   socket_to_user_map, last_db_update, last_db_positions,
                   time_threshold, distance_threshold, now>>

\* GET /api/messages?type=message_type&limit=limit
http_get_messages(message_type, limit, indexed) ==
    /\ evt' = [name |-> "http_get_messages", sid |-> "",
               data |-> [type |-> message_type, limit |-> limit, indexed |-> indexed],
               fail |-> 0]
    /\ out' = <<[ev |-> "return", to |-> "caller",
                 data |-> get_recent_messages(messages, store, limit, message_type,
                                              indexed)]>>
    /\ UNCHANGED <<players, store, inventories, messages, island_docs, islands,
                   socket_to_user_map, last_db_update, last_db_positions,
                   time_threshold, distance_threshold, now>>

-----------------------------------------------------------------------------
(* firestore_models.Island and POST /api/admin/create_island *)

Island_to_dict(id, doc) ==
    Merge(doc, [id |-> id, created_at |-> serialize_timestamp(doc.created_at)])

DefaultRadius == 50

\* the defaults of Island.create
IslandDefaults ==
    [position |-> [x |-> 0, y |-> 0, z |-> 0], radius |-> DefaultRadius,
     type |-> "default", created_at |-> Float(now)]

\* Island.create: doc_ref.set({**defaults, **data})
Island_create(docs, island_id, data) == Put(docs, island_id, Merge(IslandDefaults, data))

\* f"island_{int(time.time())}"
IslandId(t) == "island_" \o ToString(t)

create_island(data) ==
    LET island_id == IslandId(now)
        docs == Island_create(island_docs, island_id, data)
        island == Island_to_dict(island_id, docs[island_id])
    IN  /\ evt' = [name |-> "create_island", sid |-> "", data |-> data, fail |-> 0]
        /\ IF "position" \notin DOMAIN data
           THEN /\ out' = <<[ev |-> "return", to |-> "caller",
                             data |-> [error |-> "Invalid island data"]]>>
                /\ UNCHANGED <<island_docs, islands>>
           ELSE /\ island_docs' = docs
                /\ islands' = Put(islands, island_id, island)
                /\ out' = <<StoreWrite(island_id, docs[island_id]),
                            Emit("island_created", "all", island),
                            [ev |-> "return", to |-> "caller", data |-> island]>>
        /\ UNCHANGED <<players, store, inventories, messages, socket_to_user_map,
                       last_db_update, last_db_positions, time_threshold,
                       distance_threshold, now>>

-----------------------------------------------------------------------------
(* Process start: load_data_from_firestore on empty module globals *)

DeactivateNone(st) == st

\* firestore_models.Player.update(player['id'], active=False) for the active ones
DeactivateStored(st) == [p \in DOMAIN st |-> [st[p] EXCEPT !.active = FALSE]]

\* players[player['id']] = player, for every player of Player.get_all()
LoadPlayers(st) == [p \in DOMAIN st |-> Player_to_dict(p, st[p])]

\* islands[island['id']] = island, for every island of Island.get_all()
LoadIslands(docs) == [i \in DOMAIN docs |-> Island_to_dict(i, docs[i])]

load_data_from_firestore ==
    /\ store' = DeactivateStored(store)
    /\ players' = LoadPlayers(store')
    /\ islands' = LoadIslands(island_docs)
    /\ socket_to_user_map' = <<>>
    /\ last_db_update' = <<>>
    /\ last_db_positions' = <<>>
    /\ evt' = [name |-> "startup", sid |-> "", data |-> <<>>, fail |-> 0]
    /\ UNCHANGED <<inventories, messages, island_docs>>
    /\ out' = [i \in 1..Cardinality({p \in DOMAIN store : store[p].active}) |->
                 [ev |-> "store_write", to |-> "store", data |-> <<>>]]
    /\ UNCHANGED <<time_threshold, distance_threshold, now>>

\* time.time() moves on between two handler runs
Tick(horizon) ==
    /\ now < StartTime + horizon
    /\ now' = now + 1
    /\ evt' = [name |-> "tick", sid |-> "", data |-> <<>>, fail |-> 0]
    /\ UNCHANGED <<inventories, messages, island_docs, islands>>
    /\ out' = <<>>
    /\ UNCHANGED <<players, store, socket_to_user_map, last_db_update,
                   last_db_positions, time_threshold, distance_threshold>>

-----------------------------------------------------------------------------
(* Event payloads *)

JoinPayload(token, claimed, name, color, position, rotation, mode) ==
    [firebaseToken |-> token, player_id |-> claimed, name |-> name, color |-> color,
     position |-> position, rotation |-> rotation, mode |-> mode]

\* a join that sends only the credentials
PlainJoin(token, claimed) == JoinPayload(token, claimed, "", None, None, None, "")

ValidJoins == {PlainJoin(TokenOf(u), u) : u \in Uids}

\* no token, no claimed id, a token the verifier rejects, a token of another user
InvalidJoins ==
    {PlainJoin("", "u1"), PlainJoin(TokenOf("u1"), ""), PlainJoin("forged", "u2"),
     PlainJoin(TokenOf("u1"), "u2")}

PositionPayload(player_id, x, y, z, rotation, mode) ==
    [player_id |-> player_id, x |-> x, y |-> y, z |-> z, rotation |-> rotation,
     mode |-> mode]

PayloadIds == {DocId(u) : u \in Uids}

\* the main specification sends one well-formed position and one without x
PositionData ==
    {PositionPayload(p, Some(21), Some(0), Some(0), None, "") : p \in PayloadIds}
    \cup {PositionPayload(DocId("u1"), None, Some(0), Some(0), Some(1), "swim")}

\* the throttle specification sends positions at distances below, at and above
\* 20 from each other, one with rotation and mode, one without y
PositionDataThrottle ==
    {PositionPayload(DocId("u1"), Some(x), Some(0), Some(z), None, "") :
        x \in {0, 20, 21}, z \in {0, 1}}
    \cup {PositionPayload(DocId("u1"), Some(0), Some(0), Some(0), Some(1), "swim"),
          PositionPayload(DocId("u1"), Some(0), None, Some(0), None, "")}

\* positions 1 and 2 units apart
PositionDataTuned ==
    {PositionPayload(DocId("u1"), Some(x), Some(0), Some(0), None, "") : x \in {0, 1, 2}}

ActionPayload(player_id, action, amount) ==
    [player_id |-> player_id, action |-> action, amount |-> amount]

ActionData ==
    {ActionPayload(p, a, None) : p \in PayloadIds, a \in {"fish_caught", "monster_killed"}}
    \cup {ActionPayload(DocId("u1"), "money_earned", m) : m \in {None, Some(1), Some(-1)}}
    \cup {ActionPayload("u1", "fish_caught", None)}

NamePayload(player_id, name) == [player_id |-> player_id, name |-> name]

ColorPayload(player_id, color) == [player_id |-> player_id, color |-> color]

\* a join that sends a profile with the credentials
ProfileJoin(u) ==
    JoinPayload(TokenOf(u), u, "Rejoiner", Some(<<1, 1, 1>>),
                Some([x |-> Some(5), y |-> Some(5), z |-> Some(5)]), Some(2), "swim")

InventoryPayload(player_id, item_type, item_name, item_data) ==
    [player_id |-> player_id, item_type |-> item_type, item_name |-> item_name,
     item_data |-> item_data]

\* every item type of the inventory, the handler's 'treasure', no type and no
\* name, for a cached and an unknown player
InventoryData ==
    {InventoryPayload(p, t, n, None) :
        p \in PayloadIds, t \in {"fish", "treasure", "treasures", "cargo", ""},
        n \in {"cod", "eel", ""}}
    \cup {InventoryPayload(DocId("u1"), "fish", "cod", Some("big"))}

\* the characters names are made of: a letter, a blank, and the characters the
\* sanitizer looks for
NameChars == {"a", " ", "<", ">", "&", ";", "[", "]", "/"}

RECURSIVE Strings(_)
Strings(n) ==
    IF n = 0 THEN {""}
    ELSE Strings(n - 1) \cup {s \o c : s \in Strings(n - 1), c \in NameChars}

RECURSIVE Letters(_)
Letters(k) == IF k = 0 THEN "" ELSE "a" \o Letters(k - 1)

\* names of up to MaxTail characters, alone or after a run of letters that
\* brings them to the length at which names are cut
NameInputs ==
    {Letters(k) \o tail :
        k \in {0} \cup ((MaxNameLen - MaxTail + 1)..MaxNameLen), tail \in Strings(MaxTail)}

-----------------------------------------------------------------------------
(* The state after construction: an empty store has been loaded *)

InitWith(interval, distance) ==
    /\ store = <<>>
    /\ inventories = <<>>
    /\ messages = <<>>
    /\ island_docs = <<>>
    /\ islands = <<>>
    /\ players = <<>>
    /\ socket_to_user_map = <<>>
    /\ last_db_update = <<>>
    /\ last_db_positions = <<>>
    /\ time_threshold = interval
    /\ distance_threshold = distance
    /\ now = StartTime
    /\ evt = [name |-> "startup", sid |-> "", data |-> <<>>, fail |-> 0]
    /\ out = <<>>
    /\ hist = <<>>

\* seconds between database updates
DB_UPDATE_INTERVAL == 2
\* minimum distance in units to trigger a database update
MIN_POSITION_UPDATE_DISTANCE == 20

Init == InitWith(DB_UPDATE_INTERVAL, <<MIN_POSITION_UPDATE_DISTANCE, 1>>)

-----------------------------------------------------------------------------
(* Spec: joins, position updates, disconnects and restarts of two users on   *)
(* two connections                                                          *)

Join ==
    \E sid \in Sids, data \in ValidJoins \cup InvalidJoins :
        handle_player_join(sid, data, 0) /\ UNCHANGED hist

Disconnect == \E sid \in Sids : handle_disconnect(sid, 0) /\ UNCHANGED hist

UpdatePosition ==
    \E sid \in Sids, data \in PositionData :
        handle_position_update(sid, data, 0) /\ UNCHANGED hist

Startup == load_data_from_firestore /\ hist' = <<>>

Clock == Tick(MaxTicks) /\ UNCHANGED hist

Next == Join \/ Disconnect \/ UpdatePosition \/ Startup \/ Clock

Spec == Init /\ [][Next]_vars

-----------------------------------------------------------------------------
(* SpecStats: joins, stat events, disconnects and restarts *)

\* the harness keeps every counter within -MaxCount .. MaxCount
CounterInRange(data) ==
    (data.player_id \in DOMAIN players /\ CounterOf(data.action) # "")
        => LET value == players[data.player_id][CounterOf(data.action)] + Increment(data)
           IN  value <= MaxCount /\ value >= -MaxCount

PlayerAction ==
    \E sid \in Sids, data \in ActionData :
        /\ CounterInRange(data)
        /\ handle_player_action(sid, data, 0)
        /\ UNCHANGED hist

JoinStats ==
    \E data \in ValidJoins \cup {PlainJoin("forged", "u2")} :
        handle_player_join("s1", data, 0) /\ UNCHANGED hist

DisconnectStats == handle_disconnect("s1", 0) /\ UNCHANGED hist

NextStats == JoinStats \/ DisconnectStats \/ PlayerAction \/ Startup

SpecStats == Init /\ [][NextStats]_vars

-----------------------------------------------------------------------------
(* SpecThrottle: one user moving while the clock runs; hist keeps the last   *)
(* accepted update of each player                                           *)

\* an update the handler does not drop: id, x and z given, player cached
Accepted(data) ==
    /\ data.player_id # "" /\ data.x # None /\ data.z # None
    /\ data.player_id \in DOMAIN players

PositionWritten(o) == \E i \in 1..Len(o) : o[i].ev = "store_write"

\* the last two accepted updates of a player, the newer one last
LastTwo(h) == IF Len(h) > 2 THEN SubSeq(h, Len(h) - 1, Len(h)) ELSE h

Observe(data) ==
    IF Accepted(data)
    THEN Put(hist, data.player_id,
             LastTwo((IF data.player_id \in DOMAIN hist THEN hist[data.player_id] ELSE <<>>)
                     \o <<[position |-> [x |-> data.x, y |-> data.y, z |-> data.z],
                           time |-> now, wrote |-> PositionWritten(out')]>>))
    ELSE hist

JoinOne ==
    \E data \in {PlainJoin(TokenOf("u1"), "u1"), PlainJoin("forged", "u1")} :
        handle_player_join("s1", data, 0) /\ UNCHANGED hist

DisconnectOne == handle_disconnect("s1", 0) /\ UNCHANGED hist

UpdatePositionThrottle ==
    \E data \in PositionDataThrottle :
        handle_position_update("s1", data, 0) /\ UNCHANGED hist

ClockThrottle == Tick(MaxTicksThrottle) /\ UNCHANGED hist

NextThrottle ==
    JoinOne \/ DisconnectOne \/ UpdatePositionThrottle \/ Startup \/ ClockThrottle

SpecThrottle == Init /\ [][NextThrottle]_vars

-----------------------------------------------------------------------------
(* SpecTuned: the same server deployed with time_threshold = 5 s and        *)
(* distance_threshold = 1.5                                                 *)

InitTuned == InitWith(5, <<3, 2>>)

UpdatePositionTuned ==
    \E data \in PositionDataTuned :
        handle_position_update("s1", data, 0) /\ hist' = Observe(data)

ClockTuned == Tick(MaxTicksTuned) /\ UNCHANGED hist

NextTuned == JoinOne \/ UpdatePositionTuned \/ Startup \/ ClockTuned

SpecTuned == InitTuned /\ [][NextTuned]_vars

-----------------------------------------------------------------------------
(* SpecProfile: players join, leave and join again on one connection, with  *)
(* and without a profile in the payload, and change name, color and fish    *)
(* count in between                                                         *)

JoinProfile ==
    \E data \in ValidJoins \cup {ProfileJoin("u1"), PlainJoin("forged", "u1")} :
        handle_player_join("s1", data, 0) /\ UNCHANGED hist

UpdateName ==
    \E data \in {NamePayload(DocId("u1"), n) : n \in {"Ann", "<b>Bo</b>", "x", ""}} :
        handle_update_player_name("s1", data, 0) /\ UNCHANGED hist

UpdateColor ==
    \E data \in {ColorPayload(DocId("u1"), c) : c \in {None, Some(<<1, 0, 0>>)}} :
        handle_update_player_color("s1", data, 0) /\ UNCHANGED hist

FishCaught ==
    /\ CounterInRange(ActionPayload(DocId("u1"), "fish_caught", None))
    /\ handle_player_action("s1", ActionPayload(DocId("u1"), "fish_caught", None), 0)
    /\ UNCHANGED hist

NextProfile ==
    \/ JoinProfile \/ DisconnectOne \/ UpdateName \/ UpdateColor \/ FishCaught
    \/ Startup \/ Clock

SpecProfile == Init /\ [][NextProfile]_vars

-----------------------------------------------------------------------------
(* SpecInventory: one player joins; items are added through the handler,    *)
(* cargo through Inventory.add_cargo, items are removed through             *)
(* Inventory.remove_item and inventories are read                           *)

\* the harness keeps every collection of a player within MaxItems entries
InventoryRoom(player_id) ==
    player_id \in DOMAIN inventories
        => \A t \in ItemTypes : Len(inventories[player_id][t]) < MaxItems

AddToInventory ==
    \E data \in InventoryData :
        /\ InventoryRoom(data.player_id)
        /\ handle_add_to_inventory("s1", data, 0)
        /\ UNCHANGED hist

GetInventory ==
    \E p \in PayloadIds \cup {""} :
        handle_get_inventory("s1", [player_id |-> p], 0) /\ UNCHANGED hist

AddCargo ==
    \E n \in {"rum", "tea"} :
        /\ InventoryRoom(DocId("u1"))
        /\ call_add_cargo(DocId("u1"), n, None)
        /\ UNCHANGED hist

RemoveItem ==
    \E t \in ItemTypes \cup {"gold"}, i \in -1..MaxItems :
        remove_item(DocId("u1"), t, i) /\ UNCHANGED hist

NextInventory == JoinOne \/ AddToInventory \/ GetInventory \/ AddCargo \/ RemoveItem

SpecInventory == Init /\ [][NextInventory]_vars

-----------------------------------------------------------------------------
(* SpecName: a client of a joined player sends a name, and sends the name   *)
(* the server made of it again                                              *)

InitName ==
    /\ store = <<>>
    /\ inventories = <<>>
    /\ messages = <<>>
    /\ island_docs = <<>>
    /\ islands = <<>>
    /\ players = <<>>
    /\ socket_to_user_map = <<>>
    /\ last_db_update = <<>>
    /\ last_db_positions = <<>>
    /\ time_threshold = DB_UPDATE_INTERVAL
    /\ distance_threshold = <<MIN_POSITION_UPDATE_DISTANCE, 1>>
    /\ now = StartTime
    /\ evt = [name |-> "startup", sid |-> "", data |-> <<>>, fail |-> 0]
    /\ out = <<>>
    /\ hist \in {[name |-> n] : n \in NameInputs}

SendName ==
    handle_update_player_name("s1", NamePayload(DocId("u1"), hist.name), 0)
    /\ UNCHANGED hist

ResendName ==
    /\ DocId("u1") \in DOMAIN players
    /\ handle_update_player_name("s1",
            NamePayload(DocId("u1"), players[DocId("u1")].name), 0)
    /\ UNCHANGED hist

NextName == JoinOne \/ SendName \/ ResendName

SpecName == InitName /\ [][NextName]_vars

-----------------------------------------------------------------------------
(* SpecBoard: the server has started on a store of three players with some  *)
(* fish and kills; leaderboards are read with limits up to MaxLimit         *)

BoardIds == {DocId("u1"), DocId("u2"), DocId("u3")}

\* a stored player as Player.create and the stat handlers leave it
StoredPlayer(id, fish, kills) ==
    [name |-> "Sailor " \o id, color |-> DefaultColor, position |-> DefaultPosition,
     rotation |-> 0, mode |-> "boat", last_update |-> Float(StartTime),
     fishCount |-> fish, monsterKills |-> kills, money |-> 0, active |-> FALSE]

InitBoard ==
    /\ store \in {[id \in BoardIds |-> StoredPlayer(id, fish[id], kills[id])] :
                     fish \in [BoardIds -> {5, 10}], kills \in [BoardIds -> {0, 1}]}
    /\ inventories = <<>>
    /\ messages = <<>>
    /\ island_docs = <<>>
    /\ islands = <<>>
    /\ players = LoadPlayers(store)
    /\ socket_to_user_map = <<>>
    /\ last_db_update = <<>>
    /\ last_db_positions = <<>>
    /\ time_threshold = DB_UPDATE_INTERVAL
    /\ distance_threshold = <<MIN_POSITION_UPDATE_DISTANCE, 1>>
    /\ now = StartTime
    /\ evt = [name |-> "startup", sid |-> "", data |-> <<>>, fail |-> 0]
    /\ out = <<>>
    /\ hist = <<>>

ReadLeaderboard ==
    \E category \in {"fishCount", "monsterKills", "money"}, limit \in 1..MaxLimit :
        call_get_leaderboard(category, limit) /\ UNCHANGED hist

HttpLeaderboard == http_get_leaderboard /\ UNCHANGED hist

NextBoard == ReadLeaderboard \/ HttpLeaderboard \/ JoinOne \/ DisconnectOne

SpecBoard == InitBoard /\ [][NextBoard]_vars

-----------------------------------------------------------------------------
(* SpecMessages: messages are created by one or another sender while the    *)
(* clock moves, and read back through either query path                     *)

CreateMessage ==
    \E id \in MessageIds \ DOMAIN messages, sender_id \in {DocId("u1"), DocId("u2")},
       message_type \in {"global", "team"} :
        call_Message_create(id, sender_id, "ahoy", message_type) /\ UNCHANGED hist

ReadMessages ==
    \E message_type \in {"global", "team"}, limit \in 1..MaxLimit, indexed \in BOOLEAN :
        http_get_messages(message_type, limit, indexed) /\ UNCHANGED hist

NextMessages == JoinOne \/ CreateMessage \/ ReadMessages \/ Clock

SpecMessages == Init /\ [][NextMessages]_vars

-----------------------------------------------------------------------------
(* SpecRestart: a player joins and leaves, islands are created, and the      *)
(* process is restarted at any point                                        *)

IslandData ==
    {[position |-> [x |-> 1, y |-> 0, z |-> 2]],
     [position |-> [x |-> 1, y |-> 0, z |-> 2], radius |-> 80, type |-> "rocky"],
     [radius |-> 80]}

CreateIsland == \E data \in IslandData : create_island(data) /\ UNCHANGED hist

NextRestart == JoinOne \/ DisconnectOne \/ CreateIsland \/ Startup \/ Clock

SpecRestart == Init /\ [][NextRestart]_vars

-----------------------------------------------------------------------------
(* SpecRace: handlers run concurrently, so a join may be suspended at its    *)
(* Player.get while another join or a stat event runs; hist holds the local  *)
(* variables of the suspended joins, by connection                           *)

JoinGet ==
    \E sid \in Sids \ DOMAIN hist :
        LET data == PlainJoin(TokenOf("u1"), "u1")
        IN  /\ join_get(sid, data)
            /\ hist' = Put(hist, sid,
                           [data |-> data,
                            existing_player |-> Player_get(store, DocId("u1"))])

JoinFinish ==
    \E sid \in DOMAIN hist :
        /\ join_finish(sid, hist[sid].data, hist[sid].existing_player)
        /\ hist' = Pop(hist, sid)

FishCaughtRace ==
    \E sid \in Sids :
        /\ CounterInRange(ActionPayload(DocId("u1"), "fish_caught", None))
        /\ handle_player_action(sid, ActionPayload(DocId("u1"), "fish_caught", None), 0)
        /\ UNCHANGED hist

DisconnectRace ==
    \E sid \in Sids \ DOMAIN hist : handle_disconnect(sid, 0) /\ UNCHANGED hist

NextRace == JoinGet \/ JoinFinish \/ FishCaughtRace \/ DisconnectRace \/ Clock

SpecRace == Init /\ [][NextRace]_vars

-----------------------------------------------------------------------------
(* SpecFailure: one user joins, moves and leaves while any store round trip  *)
(* of a handler may raise                                                   *)

\* the round trips of a handler that may raise: none, the first, the second,
\* the third
Failures == 0..3

PositionDataFailure ==
    {PositionPayload(DocId("u1"), Some(x), Some(0), Some(0), None, "") : x \in {0, 21}}
    \cup {PositionPayload(DocId("u1"), Some(21), Some(0), Some(0), Some(1), "swim")}

JoinFailure ==
    \E fail \in Failures :
        handle_player_join("s1", PlainJoin(TokenOf("u1"), "u1"), fail) /\ UNCHANGED hist

DisconnectFailure ==
    \E fail \in Failures : handle_disconnect("s1", fail) /\ UNCHANGED hist

UpdatePositionFailure ==
    \E data \in PositionDataFailure, fail \in Failures :
        handle_position_update("s1", data, fail) /\ UNCHANGED hist

NextFailure == JoinFailure \/ DisconnectFailure \/ UpdatePositionFailure \/ ClockThrottle

SpecFailure == Init /\ [][NextFailure]_vars

-----------------------------------------------------------------------------
(* SpecParallel: update_position handlers run in threads, so one may be      *)
(* preempted between its throttle check and the assignments that follow;     *)
(* hist holds the local variables of the preempted handlers, by connection   *)

PositionDataParallel ==
    {PositionPayload(DocId("u1"), Some(x), Some(0), Some(0), None, "") : x \in {0, 21}}

CheckPosition ==
    \E sid \in Sids \ DOMAIN hist, data \in PositionDataParallel :
        /\ position_check(sid, data)
        /\ hist' = Put(hist, sid, [data |-> data, due |-> position_due(data),
                                   current_time |-> now])

FinishPosition ==
    \E sid \in DOMAIN hist :
        /\ position_finish(sid, hist[sid].data, hist[sid].due, hist[sid].current_time)
        /\ hist' = Pop(hist, sid)

NextParallel == JoinOne \/ CheckPosition \/ FinishPosition \/ ClockThrottle

SpecParallel == Init /\ [][NextParallel]_vars

-----------------------------------------------------------------------------
(* SpecBookkeeping: one user joins, moves, catches fish, changes name and    *)
(* color, leaves and joins again while the clock runs and the process may    *)
(* restart                                                                  *)

UpdatePositionBookkeeping ==
    \E data \in PositionDataFailure :
        handle_position_update("s1", data, 0) /\ UNCHANGED hist

UpdateNameBookkeeping ==
    handle_update_player_name("s1", NamePayload(DocId("u1"), "Ann"), 0) /\ UNCHANGED hist

UpdateColorBookkeeping ==
    handle_update_player_color("s1", ColorPayload(DocId("u1"), Some(<<1, 0, 0>>)), 0)
    /\ UNCHANGED hist

NextBookkeeping ==
    \/ JoinOne \/ DisconnectOne \/ UpdatePositionBookkeeping \/ FishCaught
    \/ UpdateNameBookkeeping \/ UpdateColorBookkeeping \/ Startup \/ ClockThrottle

SpecBookkeeping == Init /\ [][NextBookkeeping]_vars

-----------------------------------------------------------------------------
(* SpecNames: one user joins with or without a name in the payload, renames, *)
(* catches fish, chats with or without a name in the payload, and leaves     *)

ChatPayload(content, player_id, player_name) ==
    [content |-> content, player_id |-> player_id, player_name |-> player_name]

JoinNamed ==
    \E name \in {"", "Ann", "<b>Bo</b>", "x"} :
        /\ handle_player_join("s1", JoinPayload(TokenOf("u1"), "u1", name,
                                                None, None, None, ""), 0)
        /\ UNCHANGED hist

SendMessage ==
    \E content \in {"ahoy", " "}, player_id \in {DocId("u1"), "u1"},
       player_name \in {"", "Ann", "<i>", Letters(MaxNameLen + 1)} :
        /\ handle_chat_message("s1", ChatPayload(content, player_id, player_name), 0)
        /\ UNCHANGED hist

NextNames ==
    \/ JoinNamed \/ DisconnectOne \/ UpdateName \/ FishCaught \/ SendMessage
    \/ Startup

SpecNames == Init /\ [][NextNames]_vars

-----------------------------------------------------------------------------
(* SpecStatsFailure: one user joins, moves, catches fish, kills monsters,    *)
(* leaves and joins again while any store round trip may raise and the       *)
(* process may restart                                                      *)

StatFailure ==
    \E action \in {"fish_caught", "monster_killed"}, fail \in Failures :
        /\ CounterInRange(ActionPayload(DocId("u1"), action, None))
        /\ handle_player_action("s1", ActionPayload(DocId("u1"), action, None), fail)
        /\ UNCHANGED hist

NextStatsFailure ==
    \/ JoinFailure \/ DisconnectFailure \/ StatFailure \/ UpdatePositionBookkeeping
    \/ Startup

SpecStatsFailure == Init /\ [][NextStatsFailure]_vars

-----------------------------------------------------------------------------
(* SpecBurst: a joined player sends BurstLen position updates 0.05 s and    *)
(* 0.01 units apart.  Time is counted in steps of 0.05 s and coordinates in *)
(* steps of 0.01 units, so the thresholds of the code are 40 and 2000.      *)
(* Before the burst the player may have moved far away and the clock may    *)
(* have run for whole seconds.                                              *)

InitBurst ==
    /\ store = <<>>
    /\ inventories = <<>>
    /\ messages = <<>>
    /\ island_docs = <<>>
    /\ islands = <<>>
    /\ players = <<>>
    /\ socket_to_user_map = <<>>
    /\ last_db_update = <<>>
    /\ last_db_positions = <<>>
    /\ time_threshold = DB_UPDATE_INTERVAL * 20
    /\ distance_threshold = <<MIN_POSITION_UPDATE_DISTANCE * 100, 1>>
    /\ now = StartTime * 20
    /\ evt = [name |-> "startup", sid |-> "", data |-> <<>>, fail |-> 0]
    /\ out = <<>>
    /\ hist = [sent |-> 0, writes |-> 0, start |-> 0, position |-> DefaultPosition]

JoinBurst == hist.sent = 0 /\ JoinOne

\* an update 30 units from where the burst will run
FarUpdate ==
    /\ hist.sent = 0
    /\ handle_position_update("s1",
            PositionPayload(DocId("u1"), Some(3000), Some(0), Some(0), None, ""), 0)
    /\ UNCHANGED hist

\* the positions 0.01 units from position, along x and along z
BurstSteps(position) ==
    {[position EXCEPT !.x = Some(@[1] + 1)], [position EXCEPT !.z = Some(@[1] + 1)]}

\* the burst starts at the origin; event k is sent k - 1 steps of 0.05 s after
\* the first
BurstUpdate ==
    /\ hist.sent < BurstLen
    /\ DocId("u1") \in DOMAIN players
    /\ hist.sent > 0 => now = hist.start + hist.sent
    /\ \E position \in (IF hist.sent = 0 THEN {DefaultPosition}
                         ELSE BurstSteps(hist.position)) :
          /\ handle_position_update("s1",
                  PositionPayload(DocId("u1"), position.x, position.y, position.z,
                                  None, ""), 0)
          /\ hist' = [sent |-> hist.sent + 1,
                      writes |-> hist.writes + (IF PositionWritten(out') THEN 1 ELSE 0),
                      start |-> IF hist.sent = 0 THEN now ELSE hist.start,
                      position |-> position]

\* time.time() moves on: by whole seconds before the burst, by 0.05 s after
\* each event of the burst
ClockBurst ==
    /\ \/ hist.sent = 0 /\ now < (StartTime + MaxTicksThrottle) * 20 /\ now' = now + 20
       \/ hist.sent > 0 /\ hist.sent < BurstLen /\ now = hist.start + hist.sent - 1
          /\ now' = now + 1
    /\ evt' = [name |-> "tick", sid |-> "", data |-> <<>>, fail |-> 0]
    /\ UNCHANGED <<inventories, messages, island_docs, islands>>
    /\ out' = <<>>
    /\ UNCHANGED <<players, store, socket_to_user_map, last_db_update,
                   last_db_positions, time_threshold, distance_threshold, hist>>

NextBurst == JoinBurst \/ FarUpdate \/ BurstUpdate \/ ClockBurst

SpecBurst == InitBurst /\ [][NextBurst]_vars

-----------------------------------------------------------------------------
(* Claims.  A step property reads the event of the step in evt', what the   *)
(* step did in out', and the state it started from in the unprimed          *)
(* variables.                                                               *)

Bound(sid) == sid \in DOMAIN socket_to_user_map
ConnectionsOf(p) == {sid \in DOMAIN socket_to_user_map : socket_to_user_map[sid] = p}
Sent(o, ev) == {i \in 1..Len(o) : o[i].ev = ev}
Throttle == <<last_db_update, last_db_positions>>

\* C1: in every state between handlers a cached player is active if and only
\* if some connection of the registry is bound to its id
C1_ActiveIffConnected ==
    \A p \in DOMAIN players : players[p].active <=> ConnectionsOf(p) # {}

\* C2: a join with no token, a token the verifier rejects or a token of another
\* id than the claimed one changes neither cache, store, registry nor throttle
\* bookkeeping, and its only output is one auth_required or auth_error to the
\* sender
C2_JoinRejected(data) ==
    \/ data.firebaseToken = ""
    \/ verify_firebase_token(data.firebaseToken) = ""
    \/ verify_firebase_token(data.firebaseToken) # data.player_id

C3_UnregisteredUpdateDropped ==
    [][(evt'.name = "update_position" /\ ~Bound(evt'.sid))
        => /\ players' = players
           /\ store' = store
           /\ Sent(out', "store_write") = {}
           /\ Sent(out', "player_moved") = {}]_vars

\* C4: a player_action on a connection that is not in the registry changes no
\* counter in cache or store and broadcasts neither player_achievement nor
\* leaderboard_update
C4_UnregisteredActionDropped ==
    [][(evt'.name = "player_action" /\ ~Bound(evt'.sid))
        => /\ players' = players
           /\ store' = store
           /\ Sent(out', "player_achievement") = {}
           /\ Sent(out', "leaderboard_update") = {}]_vars

\* C5: the disconnect of a registered connection removes its registry entry,
\* leaves the bound player inactive in cache and store, leaves the active flag
\* of every other player as it was, and broadcasts exactly one
\* player_disconnected, which carries the bound player's id
C5_DisconnectDeactivatesOne ==
    [][(evt'.name = "disconnect" /\ Bound(evt'.sid))
        => LET p == socket_to_user_map[evt'.sid]
           IN  /\ evt'.sid \notin DOMAIN socket_to_user_map'
               /\ DOMAIN players' = DOMAIN players
               /\ DOMAIN store' = DOMAIN store
               /\ p \in DOMAIN players /\ p \in DOMAIN store
               /\ ~players'[p].active
               /\ ~store'[p].active
               /\ \A q \in DOMAIN players \ {p} :
                     /\ players'[q].active = players[q].active
                     /\ store'[q].active = store[q].active
               /\ Cardinality(Sent(out', "player_disconnected")) = 1
               /\ \A i \in Sent(out', "player_disconnected") :
                     out'[i].to = "all" /\ out'[i].data = p]_vars

\* a registered connection has just disconnected, its player is inactive and
\* another player is still active
C5_Witness ==
    /\ evt.name = "disconnect"
    /\ Cardinality(Sent(out, "player_disconnected")) = 1
    /\ \E p \in DOMAIN players :
          /\ out[Len(out)].data = p
          /\ ~players[p].active /\ ~store[p].active
          /\ \E q \in DOMAIN players \ {p} : players[q].active /\ store[q].active

\* C6: the disconnect of a connection that is not in the registry changes
\* neither registry, cache nor store and broadcasts nothing, however often it
\* is repeated
C6_UnregisteredDisconnectNoOp ==
    [][(evt'.name = "disconnect" /\ ~Bound(evt'.sid))
        => /\ UNCHANGED <<players, store, socket_to_user_map, Throttle>>
           /\ out' = <<>>]_vars

\* the disconnect of an unregistered connection has run twice in a row while a
\* player is cached and active
C6_Witness ==
    /\ evt.name = "disconnect" /\ ~Bound(evt.sid) /\ out = <<>>
    /\ \E p \in DOMAIN players : players[p].active /\ ConnectionsOf(p) # {}

\* C7: when one of two connections bound to the same player disconnects, the
\* player stays active in cache and store
C7_SharedPlayerStaysActive ==
    [][(/\ evt'.name = "disconnect" /\ Bound(evt'.sid)
        /\ ConnectionsOf(socket_to_user_map[evt'.sid]) \ {evt'.sid} # {}
        /\ socket_to_user_map[evt'.sid] \in DOMAIN players
        /\ players[socket_to_user_map[evt'.sid]].active)
        => /\ players'[socket_to_user_map[evt'.sid]].active
           /\ store'[socket_to_user_map[evt'.sid]].active]_vars

\* C8: after an accepted update_position the cached position of the player is
\* the position of that event, so that after any sequence of them it is the
\* last one's, whether or not the event was written to the store
C8_CacheHoldsLastPosition ==
    [][(evt'.name = "update_position" /\ Accepted(evt'.data))
        => players'[evt'.data.player_id].position
             = [x |-> evt'.data.x, y |-> evt'.data.y, z |-> evt'.data.z]]_vars

\* an accepted update was broadcast and not written: the cache holds its
\* position, the store another one
C8_Witness ==
    /\ evt.name = "update_position"
    /\ Sent(out, "player_moved") # {} /\ Sent(out, "store_write") = {}
    /\ players[evt.data.player_id].position
         = [x |-> evt.data.x, y |-> evt.data.y, z |-> evt.data.z]
    /\ store[evt.data.player_id].position # players[evt.data.player_id].position

\* C9: an accepted update_position is written to the store if and only if more
\* than time_threshold has passed since the last written one (time 0 when there
\* is none) and the player has no written position or the new one is farther
\* than distance_threshold from it; the distance is defined when both
\* positions have all three coordinates
C9_Elapsed(p) ==
    now - (IF p \in DOMAIN last_db_update THEN last_db_update[p] ELSE 0) > time_threshold

C9_Square(a, b) == (a[1] - b[1]) * (a[1] - b[1])

C9_Moved(p, data) ==
    \/ p \notin DOMAIN last_db_positions
    \/ (C9_Square(data.x, last_db_positions[p].x) + C9_Square(data.y, last_db_positions[p].y)
        + C9_Square(data.z, last_db_positions[p].z))
         * distance_threshold[2] * distance_threshold[2]
       > distance_threshold[1] * distance_threshold[1]

C9_DistanceDefined(p, data) ==
    /\ data.y # None
    /\ p \in DOMAIN last_db_positions => last_db_positions[p].y # None

C9_Written(o, p, data) ==
    \E i \in Sent(o, "store_write") :
        /\ o[i].data[1] = p
        /\ o[i].data[2].position = [x |-> data.x, y |-> data.y, z |-> data.z]

C9_PersistIffPolicy ==
    [][(/\ evt'.name = "update_position" /\ Accepted(evt'.data)
        /\ C9_DistanceDefined(evt'.data.player_id, evt'.data))
        => /\ C9_Written(out', evt'.data.player_id, evt'.data)
                <=> (C9_Elapsed(evt'.data.player_id)
                     /\ C9_Moved(evt'.data.player_id, evt'.data))
           /\ Sent(out', "store_write") # {}
                => C9_Written(out', evt'.data.player_id, evt'.data)]_vars

\* an accepted update was not written although more than time_threshold had
\* passed since the last write: it lies exactly distance_threshold from the
\* written position
C9_Witness ==
    /\ evt.name = "update_position"
    /\ Sent(out, "player_moved") # {} /\ Sent(out, "store_write") = {}
    /\ evt.data.player_id \in DOMAIN last_db_positions
    /\ C9_DistanceDefined(evt.data.player_id, evt.data)
    /\ C9_Elapsed(evt.data.player_id)
    /\ (C9_Square(evt.data.x, last_db_positions[evt.data.player_id].x)
        + C9_Square(evt.data.y, last_db_positions[evt.data.player_id].y)
        + C9_Square(evt.data.z, last_db_positions[evt.data.player_id].z)) = 400

\* C10, as amended: with time_threshold = 5 s and distance_threshold = 1.5,
\* when the first of two consecutive updates of a player is itself written to
\* the store, a second one 1 unit away and at most 5 s later is not written,
\* and a second one 2 units away and 6 s later is written
C10_SquaredDistance(a, b) ==
    C9_Square(a.position.x, b.position.x) + C9_Square(a.position.y, b.position.y)
    + C9_Square(a.position.z, b.position.z)

C10_Tuned == time_threshold = 5 /\ distance_threshold = <<3, 2>>

C10_Writes(h) == Cardinality({i \in 1..Len(h) : h[i].wrote})

C11_BurstCachedOneWrite ==
    /\ hist.writes <= 1
    /\ hist.sent = BurstLen => players[DocId("u1")].position = hist.position

\* the burst is over, one of its events was written, and the cache holds the
\* last position while the store holds an earlier one
C11_Witness ==
    /\ hist.sent = BurstLen /\ hist.writes = 1
    /\ players[DocId("u1")].position = hist.position
    /\ store[DocId("u1")].position # hist.position

\* C12: a valid join for an id that already has a player record adds no record
\* to cache or store, leaves the player active with last_update set to the
\* time of the join, and leaves its name, color, fishCount, monsterKills and
\* money as they were, whatever the payload carries
C12_Kept == {"name", "color", "fishCount", "monsterKills", "money"}

C12_RejoinKeepsIdentity ==
    [][(/\ evt'.name = "player_join" /\ Authenticated(evt'.data)
        /\ DocId(evt'.data.player_id) \in DOMAIN store)
        => LET d == DocId(evt'.data.player_id)
           IN  /\ DOMAIN store' = DOMAIN store
               /\ DOMAIN players' = DOMAIN store
               /\ players'[d].active /\ store'[d].active
               /\ players'[d].last_update = Float(now)
               /\ store'[d].last_update = Float(now)
               /\ d \in DOMAIN players
               /\ \A f \in C12_Kept :
                     players'[d][f] = players[d][f] /\ store'[d][f] = store[d][f]]_vars

\* a player who chose a name and a color and caught a fish has joined again
\* with a payload that carries another name and another color, at a later time
\* than its previous update
C12_Witness ==
    /\ evt.name = "player_join" /\ evt.data = ProfileJoin("u1")
    /\ Sent(out, "connection_response") # {}
    /\ players[DocId("u1")].name = "Ann" /\ store[DocId("u1")].name = "Ann"
    /\ players[DocId("u1")].color = <<1, 0, 0>>
    /\ players[DocId("u1")].fishCount = 1
    /\ players[DocId("u1")].active
    /\ players[DocId("u1")].last_update = Float(StartTime + 1)

\* C13: a valid join emits, in this order, connection_response to the sender
\* with the state the player has after the join (name, color, position,
\* rotation, mode, counters and active flag), player_joined to everyone, and
\* to the sender all_players with exactly the active players, the joiner among
\* them, all_islands, chat_history and leaderboard_update
C13_State ==
    {"name", "color", "position", "rotation", "mode", "fishCount", "monsterKills",
     "money", "active"}

C13_IsEmit(e) == e.ev # "store_write"

C13_JoinOutputsInOrder ==
    [][(evt'.name = "player_join" /\ Authenticated(evt'.data))
        => LET d == DocId(evt'.data.player_id)
               e == SelectSeq(out', C13_IsEmit)
           IN  /\ Len(e) = 6
               /\ e[1].ev = "connection_response" /\ e[1].to = "sender"
               /\ \A f \in C13_State : e[1].data[f] = players'[d][f]
               /\ e[2].ev = "player_joined" /\ e[2].to = "all"
               /\ e[3].ev = "all_players" /\ e[3].to = "sender"
               /\ e[3].data = {p \in DOMAIN players' : players'[p].active}
               /\ d \in e[3].data
               /\ e[4].ev = "all_islands" /\ e[4].to = "sender"
               /\ e[5].ev = "chat_history" /\ e[5].to = "sender"
               /\ e[6].ev = "leaderboard_update" /\ e[6].to = "sender"]_vars

\* C14: an update_position in which x, y or z is missing changes neither
\* cache, store nor throttle bookkeeping, raises no error and emits nothing
C14_MissingCoordinateDropped ==
    [][(/\ evt'.name = "update_position"
        /\ (evt'.data.x = None \/ evt'.data.y = None \/ evt'.data.z = None))
        => /\ UNCHANGED <<players, store, Throttle>>
           /\ out' = <<>>]_vars

\* C15: every cached player has a position with x, y and z all present
C15_PositionDefined ==
    \A p \in DOMAIN players :
        /\ players[p].position.x # None
        /\ players[p].position.y # None
        /\ players[p].position.z # None

\* C16: a stat event of a connection registered for a cached player adds 1 to
\* fishCount or monsterKills, or the given amount to money, in cache and store,
\* and its outputs are, in this order, the store write of the new value, one
\* player_achievement to everyone with the new value and one
\* leaderboard_update to everyone in which the player has the new value
C16_Amount(data) ==
    IF data.action = "money_earned"
    THEN (IF data.amount = None THEN 0 ELSE data.amount[1])
    ELSE 1

C16_Counter(data) ==
    IF data.action = "fish_caught" THEN "fishCount"
    ELSE IF data.action = "monster_killed" THEN "monsterKills"
    ELSE "money"

C16_StatEventApplied ==
    [][(/\ evt'.name = "player_action" /\ Bound(evt'.sid)
        /\ socket_to_user_map[evt'.sid] = evt'.data.player_id
        /\ evt'.data.player_id \in DOMAIN players
        /\ evt'.data.action \in {"fish_caught", "monster_killed", "money_earned"})
        => LET p == evt'.data.player_id
               c == C16_Counter(evt'.data)
               v == players[p][c] + C16_Amount(evt'.data)
           IN  /\ players'[p][c] = v
               /\ store'[p][c] = v
               /\ Len(out') = 3
               /\ out'[1].ev = "store_write"
               /\ out'[1].data[1] = p /\ out'[1].data[2][c] = v
               /\ out'[2].ev = "player_achievement" /\ out'[2].to = "all"
               /\ out'[2].data = <<p, players[p].name, c, v>>
               /\ out'[3].ev = "leaderboard_update" /\ out'[3].to = "all"
               /\ \E i \in DOMAIN out'[3].data[c] :
                     /\ out'[3].data[c][i].name = players[p].name
                     /\ out'[3].data[c][i].value = v]_vars

\* u1, registered on s1, has caught a fish while u2 is stored with no fish:
\* the leaderboard sent lists u1 with 1 before u2 with 0
C16_Witness ==
    /\ evt.name = "player_action" /\ evt.sid = "s1"
    /\ evt.data = ActionPayload(DocId("u1"), "fish_caught", None)
    /\ socket_to_user_map = [s1 |-> DocId("u1")]
    /\ Len(out) = 3
    /\ Len(out[3].data.fishCount) = 2
    /\ out[3].data.fishCount[1].value = 1 /\ out[3].data.fishCount[2].value = 0
    /\ players[DocId("u1")].fishCount = 1 /\ store[DocId("u1")].fishCount = 1

\* C17: fishCount, monsterKills and money of every player are at least 0, in
\* the cache and in the store
C17_CountersNonNegative ==
    /\ \A p \in DOMAIN players :
          players[p].fishCount >= 0 /\ players[p].monsterKills >= 0 /\ players[p].money >= 0
    /\ \A p \in DOMAIN store :
          store[p].fishCount >= 0 /\ store[p].monsterKills >= 0 /\ store[p].money >= 0

\* what a read of the inventory of p shows of its three collections; a missing
\* inventory reads as three empty lists
InventoryRead(inv, p) ==
    [t \in ItemTypes |-> IF p \in DOMAIN inv THEN inv[p][t] ELSE <<>>]

\* C18: remove_item with an index below 0 or not below the length of the named
\* collection fails with an error, and a read of the inventory shows all three
\* collections as before
C18_OutOfBoundsRemovalFails ==
    [][(/\ evt'.name = "remove_item" /\ evt'.data.item_type \in ItemTypes
        /\ \/ evt'.data.item_index < 0
           \/ evt'.data.item_index
                >= Len(InventoryRead(inventories, evt'.data.player_id)[evt'.data.item_type]))
        => /\ out' = <<Raise>>
           /\ InventoryRead(inventories', evt'.data.player_id)
                = InventoryRead(inventories, evt'.data.player_id)]_vars

\* remove_item with index -1 has failed on a fish list of two entries, which
\* are still there
C18_Witness ==
    /\ evt.name = "remove_item" /\ evt.data.item_type = "fish"
    /\ evt.data.item_index = -1
    /\ out = <<Raise>>
    /\ Len(inventories[evt.data.player_id].fish) = 2
    /\ inventories[evt.data.player_id].fish[1].name # inventories[evt.data.player_id].fish[2].name

\* C19: add_to_inventory of a cached player with item_type fish, treasures or
\* cargo and a name appends one entry with that name and data at the end of
\* the named collection and leaves its earlier entries and the other two
\* collections as they were
C19_AddAppendsOne ==
    [][(/\ evt'.name = "add_to_inventory"
        /\ evt'.data.player_id \in DOMAIN players
        /\ evt'.data.item_type \in ItemTypes /\ evt'.data.item_name # "")
        => LET t == evt'.data.item_type
               before == InventoryRead(inventories, evt'.data.player_id)
               after == InventoryRead(inventories', evt'.data.player_id)
           IN  /\ Len(after[t]) = Len(before[t]) + 1
               /\ SubSeq(after[t], 1, Len(before[t])) = before[t]
               /\ after[t][Len(after[t])].name = evt'.data.item_name
               /\ \A u \in ItemTypes \ {t} : after[u] = before[u]]_vars

\* C20: the name an accepted update_player_name leaves in the cache is a fixed
\* point of the procedure that made it: sanitized again it is still at least
\* 2 characters long, and cut to 50 characters it is the same name
C20_SanitizeIdempotent ==
    [][(evt'.name = "update_player_name" /\ Sent(out', "player_updated") # {})
        => LET r == players'[evt'.data.player_id].name
           IN  /\ Len(sanitize_player_name(r)) >= MinNameLen
               /\ Truncate(sanitize_player_name(r)) = r]_vars

C22_PathsAgree ==
    evt.name = "http_get_messages"
    => /\ get_recent_messages(messages, store, evt.data.limit, evt.data.type, TRUE)
          = get_recent_messages(messages, store, evt.data.limit, evt.data.type, FALSE)
       /\ \A i, j \in 1..Len(out[1].data) :
              i < j => messages[out[1].data[i].id].timestamp[2]
                       <= messages[out[1].data[j].id].timestamp[2]

\* C23: when the startup load has run, every player is inactive in the cache
\* and in the store and the cache holds exactly the store's players and
\* islands; and a player goes from inactive to active, in the cache or in the
\* store, only in a join with a valid token for that player
C23_RestartDeactivates ==
    [][/\ evt'.name = "startup"
          => /\ \A p \in DOMAIN store' : ~store'[p].active
             /\ \A p \in DOMAIN players' : ~players'[p].active
             /\ players' = LoadPlayers(store')
             /\ islands' = LoadIslands(island_docs')
       /\ \A p \in DOMAIN players' \cup DOMAIN store' :
             (\/ p \in DOMAIN players' /\ players'[p].active
                 /\ ~(p \in DOMAIN players /\ players[p].active)
              \/ p \in DOMAIN store' /\ store'[p].active
                 /\ ~(p \in DOMAIN store /\ store[p].active))
             => /\ evt'.name = "player_join"
                /\ Authenticated(evt'.data)
                /\ p = DocId(verify_firebase_token(evt'.data.firebaseToken))]_vars

\* a restart found a connected player and an island: the player is loaded
\* inactive and the island is in the cache
C23_Witness ==
    /\ evt.name = "startup"
    /\ Len(out) = 1
    /\ DOMAIN players # {} /\ DOMAIN islands # {}
    /\ \A p \in DOMAIN players : ~players[p].active

\* C24: a connection gets its player id only in a join with a valid token made
\* while it has none, keeps that id while it is open, and loses it only in its
\* disconnect (or when the process restarts)
C24_ConnectionStateMachine ==
    [][\A sid \in Sids :
          /\ (sid \in DOMAIN socket_to_user_map /\ sid \in DOMAIN socket_to_user_map')
             => socket_to_user_map'[sid] = socket_to_user_map[sid]
          /\ (sid \notin DOMAIN socket_to_user_map /\ sid \in DOMAIN socket_to_user_map')
             => /\ evt'.name = "player_join" /\ evt'.sid = sid
                /\ Authenticated(evt'.data)
                /\ socket_to_user_map'[sid]
                   = DocId(verify_firebase_token(evt'.data.firebaseToken))
          /\ (sid \in DOMAIN socket_to_user_map /\ sid \notin DOMAIN socket_to_user_map')
             => \/ evt'.name = "disconnect" /\ evt'.sid = sid
                \/ evt'.name = "startup"]_vars

\* C25: an update_player_name whose name is empty or shorter than two
\* characters after sanitization leaves cache and store as they are and emits
\* something to the calling connection
C25_InvalidNameReported ==
    [][(/\ evt'.name = "update_player_name"
        /\ \/ evt'.data.name = ""
           \/ Len(sanitize_player_name(evt'.data.name)) < MinNameLen)
       => /\ UNCHANGED <<players, store>>
          /\ \E i \in 1..Len(out') : out'[i].to = "sender"]_vars

\* C26: a join that completes when the player's record already exists (made
\* by an earlier or a concurrent join) does not fail and leaves the record's
\* name and counters as they are
C26_ConcurrentJoinKeepsRecord ==
    [][(/\ evt'.name = "player_join"
        /\ Authenticated(evt'.data)
        /\ DocId(evt'.data.player_id) \in DOMAIN store)
       => LET docid == DocId(evt'.data.player_id)
          IN  /\ \A i \in 1..Len(out') : out'[i].ev # "raise"
              /\ store'[docid].name = store[docid].name
              /\ store'[docid].fishCount = store[docid].fishCount
              /\ store'[docid].monsterKills = store[docid].monsterKills
              /\ store'[docid].money = store[docid].money
              /\ players'[docid].fishCount = store[docid].fishCount]_vars

\* C27: an accepted update_position leaves exactly one player_moved, sent to
\* the other connections with the position and the rotation and mode given,
\* whether the position is written or not and whether the write raises or not
C27_OneMovedPerUpdate ==
    [][(evt'.name = "update_position" /\ Accepted(evt'.data))
       => /\ Cardinality(Sent(out', "player_moved")) = 1
          /\ \A i \in Sent(out', "player_moved") :
                /\ out'[i].to = "others"
                /\ out'[i].data
                   = <<evt'.data.player_id,
                       PositionFields(evt'.data, [x |-> evt'.data.x, y |-> evt'.data.y,
                                                  z |-> evt'.data.z])>>]_vars

\* C28: when the interval has passed and the position is the first or far
\* enough from the last one written, the time and the position of the last
\* write are set to now and the new position, whether the write raises or not;
\* otherwise nothing is written and both are left as they are, also when the
\* write before raised
C28_BookkeepingBeforeWrite ==
    [][(evt'.name = "update_position" /\ Accepted(evt'.data))
       => LET p == evt'.data.player_id
              position == [x |-> evt'.data.x, y |-> evt'.data.y, z |-> evt'.data.z]
              due == /\ now - (IF p \in DOMAIN last_db_update
                               THEN last_db_update[p] ELSE 0) > time_threshold
                     /\ \/ p \notin DOMAIN last_db_positions
                        \/ DistanceSquared(position, last_db_positions[p])
                           > MIN_POSITION_UPDATE_DISTANCE * MIN_POSITION_UPDATE_DISTANCE
          IN  IF due
              THEN /\ p \in DOMAIN last_db_update' /\ last_db_update'[p] = now
                   /\ p \in DOMAIN last_db_positions'
                   /\ last_db_positions'[p] = position
              ELSE /\ UNCHANGED <<last_db_update, last_db_positions, store>>
                   /\ Sent(out', "store_write") = {}]_vars

\* a position write raised, and the time and position of the last write are
\* those of the failed attempt
C28_Witness ==
    /\ evt.name = "update_position" /\ evt.fail = 1
    /\ out = <<Raise>>
    /\ last_db_update[evt.data.player_id] = now
    /\ last_db_positions[evt.data.player_id]
       = [x |-> evt.data.x, y |-> evt.data.y, z |-> evt.data.z]
    /\ store[evt.data.player_id].position # last_db_positions[evt.data.player_id]

\* C29: the cache mutation of a handler is applied whether its store write
\* raises or not: after the disconnect of a bound connection its player is
\* inactive in the cache, after a join of a stored player whose record was
\* read the player is active in the cache, and no handler writes twice
C29_CacheSurvivesStoreFailure ==
    [][/\ (/\ evt'.name = "disconnect"
           /\ evt'.sid \in DOMAIN socket_to_user_map
           /\ socket_to_user_map[evt'.sid] \in DOMAIN players)
          => ~players'[socket_to_user_map[evt'.sid]].active
       /\ (/\ evt'.name = "player_join" /\ Authenticated(evt'.data)
           /\ DocId(evt'.data.player_id) \in DOMAIN store
           /\ evt'.fail # 1)
          => /\ DocId(evt'.data.player_id) \in DOMAIN players'
             /\ players'[DocId(evt'.data.player_id)].active
       /\ Cardinality(Sent(out', "store_write")) <= 1]_vars

\* C30: a join of a player that is already in the cache leaves the cached
\* position, rotation, mode, name, color and counters as they are
C30_CacheAuthoritative ==
    [][(/\ evt'.name = "player_join" /\ Authenticated(evt'.data)
        /\ DocId(evt'.data.player_id) \in DOMAIN players)
       => LET docid == DocId(evt'.data.player_id)
          IN  /\ docid \in DOMAIN players'
              /\ \A field \in {"position", "rotation", "mode", "name", "color",
                                "fishCount", "monsterKills", "money"} :
                    players'[docid][field] = players[docid][field]]_vars

\* C31: a position write for a player whose last write was issued at time t
\* is issued only more than time_threshold after t, and the position and time
\* of the last write are then those of this write
C31_ThrottleAtomic ==
    [][(evt'.name = "update_position" /\ Sent(out', "store_write") # {})
       => LET p == evt'.data.player_id
          IN  /\ p \in DOMAIN last_db_update
                 => now - last_db_update[p] > time_threshold
              /\ p \in DOMAIN last_db_positions'
              /\ last_db_positions'[p]
                 = [x |-> evt'.data.x, y |-> evt'.data.y, z |-> evt'.data.z]]_vars

\* C32: every entry of every category of the combined leaderboard is the name,
\* value and color of a stored player that is active
C32_LeaderboardActiveOnly ==
    evt.name = "http_get_leaderboard"
    => \A category \in {"fishCount", "monsterKills", "money"} :
          \A i \in 1..Len(out[1].data[category]) :
              \E p \in DOMAIN store :
                  /\ store[p].active
                  /\ store[p].name = out[1].data[category][i].name
                  /\ store[p][category] = out[1].data[category][i].value
                  /\ store[p].color = out[1].data[category][i].color

\* C33: an update_position, player_action, update_player_name or
\* update_player_color changes the cached or stored record of no player other
\* than the one the registry maps the sending connection to
C33_OnlyBoundPlayerMutated ==
    [][evt'.name \in {"update_position", "player_action", "update_player_name",
                      "update_player_color"}
       => \A p \in DOMAIN players' \cup DOMAIN store' :
             (\/ p \notin DOMAIN players \/ p \notin DOMAIN store
              \/ p \notin DOMAIN players' \/ p \notin DOMAIN store'
              \/ players'[p] # players[p] \/ store'[p] # store[p])
             => /\ evt'.sid \in DOMAIN socket_to_user_map
                /\ socket_to_user_map[evt'.sid] = p]_vars

\* C34: after every handler the position of the last write of a player that
\* has one is the position the store holds for it, and the stored position
\* changes only in an update_position that records it as the last write
C34_BookkeepingMatchesStore ==
    [][/\ \A p \in DOMAIN last_db_positions' :
             p \in DOMAIN store' /\ store'[p].position = last_db_positions'[p]
       /\ \A p \in DOMAIN store \cap DOMAIN store' :
             store'[p].position # store[p].position
             => /\ evt'.name = "update_position" /\ evt'.data.player_id = p
                /\ p \in DOMAIN last_db_positions'
                /\ last_db_positions'[p] = store'[p].position]_vars

\* the player moved to x = 21, which was written, left and joined again: the
\* store and the last write still agree on that position
C34_Witness ==
    /\ evt.name = "player_join" /\ Authenticated(evt.data)
    /\ DocId("u1") \in DOMAIN last_db_positions
    /\ last_db_positions[DocId("u1")] = [x |-> Some(21), y |-> Some(0), z |-> Some(0)]
    /\ store[DocId("u1")].position = last_db_positions[DocId("u1")]
    /\ store[DocId("u1")].fishCount = 1

\* C35: between two restarts no handler run lowers the fishCount or the
\* monsterKills of a cached player, or drops the player from the cache
C35_CountersNeverDecrease ==
    [][evt'.name # "startup"
       => \A p \in DOMAIN players :
             /\ p \in DOMAIN players'
             /\ players'[p].fishCount >= players[p].fishCount
             /\ players'[p].monsterKills >= players[p].monsterKills]_vars

\* a name that sanitize_player_name leaves as it is, 2 to 50 characters long
NameOk(name) ==
    /\ sanitize_player_name(name) = name
    /\ Len(name) >= MinNameLen /\ Len(name) <= MaxNameLen

\* C36: every name in the cache, and every name the last handler sent in
\* player_joined, player_updated, player_achievement or as sender_name of
\* new_message, is sanitized and 2 to 50 characters long (all_players sends
\* the cached records)
C36_NamesSanitized ==
    /\ \A p \in DOMAIN players : NameOk(players[p].name)
    /\ \A i \in 1..Len(out) :
          /\ out[i].ev = "player_joined" => NameOk(out[i].data.name)
          /\ out[i].ev = "player_updated" /\ "name" \in DOMAIN out[i].data[2]
                => NameOk(out[i].data[2].name)
          /\ out[i].ev = "player_achievement" => NameOk(out[i].data[2])
          /\ out[i].ev = "new_message" => NameOk(out[i].data.sender_name)

\* C37: between handlers every player id the registry maps a connection to
\* is a key of the player cache
C37_RegistryWithinCache ==
    \A sid \in DOMAIN socket_to_user_map : socket_to_user_map[sid] \in DOMAIN players

====
